---- MODULE Spec2Model ----
(***************************************************************************)
(* Model of jivedrop's transcoding core, internal/encoder/encoder.go:      *)
(* the Encoder's native resources (Initialize / Close) and the streaming   *)
(* decode -> filter -> encode -> write loop of Encode with its three-stage *)
(* end-of-stream flush.  The FFmpeg stages are modelled as buffering       *)
(* queues that answer each call with a frame/packet, "need more input",    *)
(* end-of-stream, or an error.                                             *)
(***************************************************************************)
EXTENDS Integers, Sequences, FiniteSets, TLC

\* ---------------------------------------------------------------- bounds
MaxCloses == 2          \* Close() calls made by the caller
MaxPackets == 2         \* packets the source yields before end-of-stream
MaxFramesPerPacket == 1 \* frames one packet may decode into
MaxUpdates == 11        \* progress callbacks one Encode() run makes in the UI
MaxStreams == 3         \* streams in an input container
MaxLines == 4           \* lines of a markdown file
MaxLen == 3             \* characters of a string to sanitise
MaxCalls == 2           \* calls of UpdateFrontmatter on one file

\* ------------------------------------------------------ program constants
ChunkSize == 1152       \* asetnsamples=n=1152
OutRate == 44100        \* encoder sample rate
ChanCap == 10           \* make(chan ProgressUpdate, 10)

\* ------------------------------------------------------------ resources
\* The native handles held in the Encoder struct ("pb" is the I/O handle
\* stored inside the output context), plus Encode's local read packet.
Res == {"ifmtCtx", "decCtx", "ofmtCtx", "pb", "encCtx", "filterGraph",
        "decFrame", "filteredFrame", "encPkt", "packet"}

\* The library calls of Initialize that can fail, in program order.
InputSteps == <<"openInputFile", "findStreamInfo", "findBestStream",
                "findDecoder", "allocDecCtx", "paramsToCtx", "openDecoder">>
OutputSteps == <<"allocOutputCtx", "findEncoder", "newStream", "allocEncCtx",
                 "dictSetComp", "dictSetCutoff", "openEncoder",
                 "paramsFromCtx", "avioOpen", "writeHeader">>
FilterSteps == <<"allocFilterGraph", "getFilters", "describeLayout",
                 "createBufferSrc", "createBufferSink", "parseGraph",
                 "configGraph">>

Range(s) == {s[i] : i \in 1..Len(s)}
InitSteps == Range(InputSteps) \cup Range(OutputSteps) \cup Range(FilterSteps)

\* Index of step f in sequence s, or Len(s)+1 when f is not in s
\* (the failure, if any, lies beyond this function).
Pos(s, f) == IF f \in Range(s) THEN CHOOSE i \in 1..Len(s) : s[i] = f
             ELSE Len(s) + 1

\* New(): every pointer field is nil, nothing acquired.
NewRes == [ptr |-> [r \in Res |-> FALSE],
           acq |-> [r \in Res |-> 0],
           rel |-> [r \in Res |-> 0],
           acqOrder |-> << >>,
           relOrder |-> << >>,
           header |-> FALSE,
           crashed |-> FALSE,
           err |-> FALSE]

\* A native allocation/open that succeeded and was stored in field r.
Acquire(s, r) == [s EXCEPT !.ptr[r] = TRUE, !.acq[r] = @ + 1,
                           !.acqOrder = Append(@, r)]

\* A native free of the handle in field r (counted whether or not the
\* handle is still valid).
Release(s, r) == [s EXCEPT !.rel[r] = @ + 1, !.relOrder = Append(@, r)]

\* if e.x != nil { Free(&e.x) } : the free function nils the field.
FreeField(s, r) == IF s.ptr[r] THEN [Release(s, r) EXCEPT !.ptr[r] = FALSE]
                   ELSE s

\* The outcomes of reading through e.ofmtCtx after the context was freed.
UBOutcomes == {"crash", "pbNil", "pbStale"}

\* The e.ofmtCtx branch of Close.  AVFormatFreeContext takes the pointer by
\* value, so the field stays non-nil afterwards; on a later Close the reads
\* e.ofmtCtx.Oformat() / e.ofmtCtx.Pb() touch freed memory (outcome ub).
FreeOutput(s, ub) ==
    IF ~s.ptr["ofmtCtx"] THEN s
    ELSE IF s.rel["ofmtCtx"] = 0
         THEN LET s1 == IF s.ptr["pb"]
                        THEN [Release(s, "pb") EXCEPT !.ptr["pb"] = FALSE]
                        ELSE s
              IN Release(s1, "ofmtCtx")
         ELSE CASE ub = "crash" -> [s EXCEPT !.crashed = TRUE]
                [] ub = "pbNil" -> Release(s, "ofmtCtx")
                [] OTHER -> Release(Release(s, "pb"), "ofmtCtx")

\* Close() without the e.decCtx branch.
Close_LeakDecCtx(s, ub) ==
    LET s1 == FreeField(s, "filteredFrame")
        s2 == FreeField(s1, "encPkt")
        s3 == FreeField(s2, "decFrame")
        s4 == FreeField(s3, "filterGraph")
        s5 == FreeField(s4, "encCtx")
        s7 == FreeOutput(s5, ub)
    IN IF s7.crashed THEN s7 ELSE FreeField(s7, "ifmtCtx")

\* Close() releasing the input context first.
Close_InputFirst(s, ub) ==
    LET s0 == FreeField(s, "ifmtCtx")
        s1 == FreeField(s0, "filteredFrame")
        s2 == FreeField(s1, "encPkt")
        s3 == FreeField(s2, "decFrame")
        s4 == FreeField(s3, "filterGraph")
        s5 == FreeField(s4, "encCtx")
        s6 == FreeField(s5, "decCtx")
    IN FreeOutput(s6, ub)

\* Close(): guarded release of every field, in the order of the code.
Close(s, ub) ==
    LET s1 == FreeField(s, "filteredFrame")
        s2 == FreeField(s1, "encPkt")
        s3 == FreeField(s2, "decFrame")
        s4 == FreeField(s3, "filterGraph")
        s5 == FreeField(s4, "encCtx")
        s6 == FreeField(s5, "decCtx")
        s7 == FreeOutput(s6, ub)
    IN IF s7.crashed THEN s7 ELSE FreeField(s7, "ifmtCtx")

Fail(s) == [s EXCEPT !.err = TRUE]

\* openInput(), failing at step f (or not at all when f is a later step).
openInput(s, f) ==
    LET k == Pos(InputSteps, f)
        s1 == Acquire(s, "ifmtCtx")
        s2 == Acquire(s1, "decCtx")
    IN IF k = 1 THEN Fail(s)
       ELSE IF k <= 5 THEN Fail(s1)
       ELSE IF k <= 7 THEN Fail(s2)
       ELSE s2

\* openOutput() going on after AVFormatWriteHeader reported an error.
openOutput_IgnoreHeaderError(s, f) ==
    LET k == Pos(OutputSteps, f)
        s1 == Acquire(s, "ofmtCtx")
        s2 == Acquire(s1, "encCtx")
        s3 == Acquire(s2, "pb")
        s4 == [s3 EXCEPT !.header = TRUE]
    IN IF k = 1 THEN Fail(s)
       ELSE IF k <= 4 THEN Fail(s1)
       ELSE IF k <= 9 THEN Fail(s2)
       ELSE IF k = 10 THEN s3
       ELSE s4

\* openOutput(), failing at step f (or not at all).
openOutput(s, f) ==
    LET k == Pos(OutputSteps, f)
        s1 == Acquire(s, "ofmtCtx")
        s2 == Acquire(s1, "encCtx")
        s3 == Acquire(s2, "pb")
        s4 == [s3 EXCEPT !.header = TRUE]
    IN IF k = 1 THEN Fail(s)
       ELSE IF k <= 4 THEN Fail(s1)
       ELSE IF k <= 9 THEN Fail(s2)
       ELSE IF k = 10 THEN Fail(s3)
       ELSE s4

\* initFilter(), failing at step f (or not at all).
initFilter(s, f) ==
    LET k == Pos(FilterSteps, f)
        s1 == Acquire(s, "filterGraph")
    IN IF k = 1 THEN Fail(s)
       ELSE IF k <= 7 THEN Fail(s1)
       ELSE s1

\* Initialize() opening the output before the input.
InitializeRes_OutputFirst(s, f) ==
    LET a == openOutput(s, f)
        b == openInput(a, f)
        c == Acquire(Acquire(Acquire(b, "decFrame"), "filteredFrame"), "encPkt")
        d == initFilter(c, f)
    IN IF a.err THEN Fail(Close(a, "pbNil"))
       ELSE IF b.err THEN b
       ELSE d

\* Initialize(): openInput, openOutput (Close on failure), the two frames
\* and the packet, initFilter.
InitializeRes(s, f) ==
    LET a == openInput(s, f)
        b == openOutput(a, f)
        c == Acquire(Acquire(Acquire(b, "decFrame"), "filteredFrame"), "encPkt")
        d == initFilter(c, f)
    IN IF a.err THEN a
       ELSE IF b.err THEN Fail(Close(b, "pbNil"))
       ELSE d

\* Nothing configured yet.
NoProfile == [bitRate |-> 0, channels |-> 0, sampleRate |-> 0,
              layout |-> "none"]

\* openOutput: SetBitRate / SetChannels / SetChannelLayout by e.stereo.
EncoderPreset(stereo) ==
    IF stereo THEN [bitRate |-> 192000, channels |-> 2]
    ELSE [bitRate |-> 112000, channels |-> 1]

FilterLayout_AlwaysMono(stereo) == "mono"

\* initFilter: the channel_layouts= value of the aformat filter.
FilterLayout(stereo) == IF stereo THEN "stereo" ELSE "mono"

\* The settings Initialize() has made when it stops at step f: the encoder
\* context is configured once it is allocated, the filter description is
\* built before the graph is parsed.
ProfileOf(stereo, f) ==
    LET encSet == f \notin Range(InputSteps) /\ Pos(OutputSteps, f) > 4
        filtSet == /\ f \notin Range(InputSteps) \cup Range(OutputSteps)
                   /\ Pos(FilterSteps, f) > 5
    IN [bitRate |-> IF encSet THEN EncoderPreset(stereo).bitRate ELSE 0,
        channels |-> IF encSet THEN EncoderPreset(stereo).channels ELSE 0,
        sampleRate |-> IF encSet THEN OutRate ELSE 0,
        layout |-> IF filtSet THEN FilterLayout(stereo) ELSE "none"]

\* Total samples for progress: duration * time_base * sample rate, or 0
\* when the stream reports no positive duration.
TotalSamplesOf(duration, num, den, rate) ==
    IF duration > 0 THEN (duration * num * rate) \div den ELSE 0

\* --------------------------------------------------------- input domains
Durations == {-1, 0, 3072}   \* stream.Duration() in time-base units
InRates == {44100, 48000}    \* decoder sample rate
FrameSizes == {1024, 2048}   \* samples in one decoded frame
SourcePts == {0, 5000}       \* timestamps the filter graph derives from the source

VARIABLES
    res,           \* the Encoder's native handles and their bookkeeping
    initState,     \* "none" | "ok" | "failed": what Initialize() returned
    initErr,       \* the step at which Initialize() failed, or "none"
    closes,        \* Close() calls made by the caller
    totalSamples,  \* e.totalSamples
    inRate,        \* e.decCtx.SampleRate()
    pc,            \* position inside Encode(): "idle" before, "done" after
    ret,           \* loop that called encodeFrame
    cbSet,         \* progressCb != nil
    encRet,        \* "none" until Encode() returns, then "nil" or the error
    libErr,        \* first library call of Encode() that reported an error
    samplesRead,   \* e.samplesRead
    nextPts,       \* e.nextPts
    reads,         \* packets read from the source so far
    otherPkts,     \* how many of them belonged to another stream
    decQ,          \* frames inside the decoder (sample counts), oldest first
    decReady,      \* how many of them ReceiveFrame can hand out now
    decFlushed,    \* the decoder was sent the flush packet
    decFrame,      \* sample count of the frame in e.decFrame
    filtBuf,       \* samples buffered in the filter graph (output rate)
    resampAcc,     \* resampler phase remainder
    filtFlushed,   \* the buffer source was sent the flush frame
    filteredFrame, \* the frame in e.filteredFrame: [pts, nb]
    encQ,          \* frames inside the encoder, oldest first
    encReady,      \* how many of them ReceivePacket can hand out now
    encFlushed,    \* the encoder was sent the flush frame
    encPkt,        \* the packet in e.encPkt: [pts, nb]
    written,       \* packets written to the output, in order
    trailers,      \* trailers written to the output
    cbLog,         \* progress callback invocations: [sp, total]
    decodedLog,    \* sample counts of the frames the decoder handed out
    pushedLog,     \* sample counts of the frames pushed to the filter graph
    filteredLog,   \* sample counts of the frames the filter graph emitted
    stampLog,      \* frames stamped by encodeFrame: [pts, nb]
    pktLog,        \* packets the encoder handed out
    duration,      \* stream.Duration() as read by openInput
    profile,       \* what e.encCtx and the filter graph were configured with
    cfg,           \* the Config passed to New: [inputPath, outputPath]
    newRet,        \* "pending" before New(), then "ok" or "err"
    mainPc,        \* position of the command-line main()
    reported,      \* main printed an error
    removed,       \* main removed the output file
    tagged,        \* id3.WriteTags ran on the output file
    uiPc,          \* "off" | "running" | "quit": the Bubbletea program
    interrupted,   \* the UI handled ctrl+c
    msgs,          \* messages on their way to Update
    waiters,       \* waitForProgress commands blocked on the channel
    mSamples,      \* m.samplesProcessed
    mTotal,        \* m.totalSamples
    complete,      \* m.complete
    mErr,          \* m.err ("nil" or the error)
    progressChan,  \* m.progressChan: buffered updates, oldest first
    chanClosed,    \* close(m.progressChan) ran
    gPc,           \* position of the startEncoding goroutine
    produced,      \* callback invocations made by Encode in that goroutine
    curUpdate,     \* the update the callback is sending
    gRet,          \* what Encode returned in that goroutine
    taken,         \* updates received from the channel, in order
    container,     \* the streams of an input container, in its own order
    streamIndex,   \* e.streamIndex: -1 until openInput selects a stream
    selRet,        \* "pending" | "ok" | "err": outcome of the stream selection
    mdFile,        \* the lines of the episode's markdown file
    fmRet,         \* "pending" | "ok" | "err": what UpdateFrontmatter returned
    sanIn,         \* the string given to sanitiseForFilename
    sanOut,        \* what it returned: [done, s]
    imgIn,         \* the decoded cover art: [w, h]
    artOut,        \* what ScaleCoverArt returned: [done, err, w, h, format]
    fmLog,         \* what the calls of UpdateFrontmatter on the file returned
    cliArgs,       \* CLI.AudioFile and CLI.EpisodeMD: [audioFile, episodeMD]
    modeOut        \* what detectMode and validateHugoMode returned

lifeVars == <<res, initState, initErr, closes, totalSamples, inRate, duration,
              profile>>
ctlVars == <<pc, ret, cbSet, encRet, libErr>>
cntVars == <<samplesRead, nextPts>>
decVars == <<decQ, decReady, decFlushed, decFrame>>
filtVars == <<filtBuf, resampAcc, filtFlushed, filteredFrame>>
codVars == <<encQ, encReady, encFlushed, encPkt>>
outVars == <<written, trailers>>
logVars == <<cbLog, decodedLog, pushedLog, filteredLog, stampLog, pktLog>>
pipeVars == <<cntVars, reads, otherPkts, decVars, filtVars, codVars, outVars, logVars>>
mainVars == <<cfg, newRet, mainPc, reported, removed, tagged>>
uiVars == <<uiPc, interrupted, msgs, waiters, mSamples, mTotal, complete, mErr>>
chanVars == <<progressChan, chanClosed, taken>>
goVars == <<gPc, produced, curUpdate, gRet>>
modeVars == <<cliArgs, modeOut>>
toolVars == <<container, streamIndex, selRet, mdFile, fmRet, sanIn, sanOut, imgIn,
              artOut, fmLog, modeVars>>
appVars == <<mainVars, uiVars, chanVars, goVars, toolVars>>
progVars == <<lifeVars, ctlVars, pipeVars, mainVars, uiVars, chanVars, goVars>>
vars == <<lifeVars, ctlVars, pipeVars, appVars>>

NoFrame == [pts |-> 0, nb |-> 0]

\* A Config New() accepts.
ValidCfg == [inputPath |-> "in.flac", outputPath |-> "out.mp3",
             stereo |-> FALSE]

NoUpdate == [sp |-> 0, total |-> 0]

\* The progress UI before tea.NewProgram, and main's bookkeeping.
UIIdle ==
    /\ reported = FALSE /\ removed = FALSE /\ tagged = FALSE
    /\ uiPc = "off" /\ interrupted = FALSE /\ msgs = {} /\ waiters = 0
    /\ mSamples = 0 /\ mTotal = 0 /\ complete = FALSE /\ mErr = "nil"
    /\ progressChan = << >> /\ chanClosed = FALSE /\ taken = << >>
    /\ gPc = "none" /\ produced = 0 /\ curUpdate = NoUpdate /\ gRet = "none"

\* The helper functions of the command-line program, not called.
SelectIdle == container = << >> /\ streamIndex = -1 /\ selRet = "pending"
FrontmatterIdle == mdFile = << >> /\ fmRet = "pending" /\ fmLog = << >>
NoResult == [done |-> FALSE, s |-> << >>]
SanitiseIdle == sanIn = << >> /\ sanOut = NoResult
NoArt == [done |-> FALSE, err |-> FALSE, w |-> 0, h |-> 0, format |-> "none"]
ArtIdle == imgIn = [w |-> 0, h |-> 0] /\ artOut = NoArt
NoMode == [done |-> FALSE, mode |-> "none", hugoErr |-> "none"]
ModeIdle ==
    /\ cliArgs = [audioFile |-> << >>, episodeMD |-> << >>]
    /\ modeOut = NoMode
ToolIdle ==
    /\ SelectIdle /\ FrontmatterIdle /\ SanitiseIdle /\ ArtIdle /\ ModeIdle

\* The command-line program around the Encoder, not running.
AppIdle ==
    /\ cfg = ValidCfg /\ newRet = "ok" /\ mainPc = "none" /\ UIIdle
    /\ ToolIdle

\* The fields of an Encoder returned by New().
EncoderInit ==
    /\ res = NewRes
    /\ initState = "none" /\ initErr = "none" /\ closes = 0
    /\ totalSamples = 0 /\ inRate = 0
    /\ pc = "idle" /\ ret = "none" /\ cbSet = FALSE
    /\ encRet = "none" /\ libErr = "none"
    /\ samplesRead = 0 /\ nextPts = 0 /\ reads = 0 /\ otherPkts = 0
    /\ decQ = << >> /\ decReady = 0 /\ decFlushed = FALSE /\ decFrame = 0
    /\ filtBuf = 0 /\ resampAcc = 0 /\ filtFlushed = FALSE
    /\ filteredFrame = NoFrame
    /\ encQ = << >> /\ encReady = 0 /\ encFlushed = FALSE /\ encPkt = NoFrame
    /\ written = << >> /\ trailers = 0
    /\ cbLog = << >> /\ decodedLog = << >> /\ pushedLog = << >>
    /\ filteredLog = << >> /\ stampLog = << >> /\ pktLog = << >>
    /\ duration = 0
    /\ profile = NoProfile

\* An Encoder built from a valid Config, used on its own.
Init == EncoderInit /\ AppIdle

\* The Encoder and the program around it, unused: the state in which one
\* helper function is exercised on its own.
ProgIdle ==
    /\ EncoderInit
    /\ cfg = ValidCfg /\ newRet = "ok" /\ mainPc = "none" /\ UIIdle

\* ------------------------------------------------------------ lifecycle
\* Initialize(): f is the step that fails ("none": every step succeeds).
Initialize ==
    /\ newRet = "ok"
    /\ initState = "none" /\ closes = 0 /\ pc = "idle"
    /\ \E f \in InitSteps \cup {"none"}, dur \in Durations, rate \in InRates :
        LET r == InitializeRes(res, f)
            opened == Pos(InputSteps, f) > Len(InputSteps)
        IN /\ res' = r
           /\ initState' = IF r.err THEN "failed" ELSE "ok"
           /\ initErr' = f
           /\ inRate' = IF opened THEN rate ELSE 0
           /\ duration' = IF opened THEN dur ELSE 0
           /\ profile' = ProfileOf(cfg.stereo, f)
           /\ totalSamples' = IF opened THEN TotalSamplesOf(dur, 1, rate, rate)
                              ELSE 0
    /\ UNCHANGED <<closes, ctlVars, pipeVars>>
    /\ UNCHANGED appVars

\* Close() called by the owner of the Encoder, outside Encode().
CloseCall ==
    /\ newRet = "ok"
    /\ pc \in {"idle", "done"} /\ closes < MaxCloses /\ ~res.crashed
    /\ \E ub \in UBOutcomes : res' = Close(res, ub)
    /\ closes' = closes + 1
    /\ UNCHANGED <<initState, initErr, totalSamples, inRate, duration, profile,
                   ctlVars, pipeVars>>
    /\ UNCHANGED appVars

\* --------------------------------------------------- the FFmpeg stages
\* aresample: n input samples at the given rate become output samples at
\* OutRate; the fractional remainder is carried in the phase accumulator.
Resample(n, acc, rate) ==
    [out |-> (n * OutRate + acc) \div rate, acc |-> (n * OutRate + acc) % rate]

\* asetnsamples: the sample count of the frame the buffer sink hands out,
\* or 0 when it answers EAGAIN / EOF: a full chunk when one is buffered,
\* the shorter remainder once the graph has been flushed.
FilterOut(buf, flushed) ==
    IF buf >= ChunkSize THEN ChunkSize
    ELSE IF flushed /\ buf > 0 THEN buf
    ELSE 0

\* k copies of x
Rep(k, x) == [i \in 1..k |-> x]

restLife == <<initState, initErr, closes, totalSamples, inRate, duration,
              profile>>

\* return err, running the deferred AVPacketFree(&packet)
Return(e) ==
    /\ pc' = "done"
    /\ encRet' = e
    /\ res' = Release(res, "packet")

\* a library call reported an error other than EAGAIN / EOF, and the code
\* returns it
Abort(call) == libErr' = call /\ Return(call)

\* ---------------------------------------------------------------- Encode
\* Encode(progressCb): allocate the read packet, enter the main loop.
EncodeStart ==
    /\ pc = "idle" /\ initState = "ok" /\ closes = 0
    /\ \E cb \in BOOLEAN : cbSet' = cb
    /\ res' = Acquire(res, "packet")
    /\ pc' = "read"
    /\ UNCHANGED <<restLife, ret, encRet, libErr, pipeVars>>
    /\ UNCHANGED appVars

ReadTarget_DecodeOther(o) ==
    CASE o = "eof" -> "flushDec"
      [] OTHER -> "sendPkt"

\* Where the main loop goes after AVReadFrame returned without error: end
\* of stream breaks out of the loop, a packet whose StreamIndex() is not
\* e.streamIndex is unreferenced and skipped (continue), an audio packet
\* goes to the decoder.
ReadTarget(o) ==
    CASE o = "eof" -> "flushDec"
      [] o = "other" -> "read"
      [] OTHER -> "sendPkt"

\* AVReadFrame: an error returns; otherwise see ReadTarget.
MainRead ==
    /\ pc = "read"
    /\ \E o \in {"eof", "err", "audio", "other"} :
        /\ o \in {"audio", "other"} => reads < MaxPackets
        /\ IF o = "err"
           THEN Abort("read") /\ UNCHANGED <<reads, otherPkts>>
           ELSE /\ pc' = ReadTarget(o)
                /\ reads' = IF o = "eof" THEN reads ELSE reads + 1
                /\ otherPkts' = IF o = "other" THEN otherPkts + 1
                                ELSE otherPkts
                /\ UNCHANGED <<res, encRet, libErr>>
    /\ UNCHANGED <<restLife, ret, cbSet, cntVars, decVars, filtVars, codVars,
                   outVars, logVars>>
    /\ UNCHANGED appVars

\* AVCodecSendPacket(packet): the packet decodes into k frames of n samples;
\* frames held back earlier become available, the new ones may be held back.
MainSendPacket ==
    /\ pc = "sendPkt"
    /\ \/ /\ Abort("sendPacket")
          /\ UNCHANGED <<decQ, decReady>>
       \/ /\ \E k \in 0..MaxFramesPerPacket, n \in FrameSizes, hold \in BOOLEAN :
               /\ decQ' = decQ \o Rep(k, n)
               /\ decReady' = IF hold THEN Len(decQ) ELSE Len(decQ) + k
          /\ pc' = "recvFrame"
          /\ UNCHANGED <<res, encRet, libErr>>
    /\ UNCHANGED <<restLife, ret, cbSet, cntVars, reads, decFlushed, decFrame,
                   filtVars, codVars, outVars, logVars>>
    /\ UNCHANGED <<otherPkts, appVars>>

\* e.samplesRead = NbSamples (assignment instead of accumulation)
AddSamples_Assign(read, nb) == nb

\* e.samplesRead += NbSamples
AddSamples(read, nb) == read + nb

InvokesCallback_NoNilCheck(cb, total) == total > 0

\* progressCb != nil && e.totalSamples > 0
InvokesCallback(cb, total) == cb /\ total > 0

\* AVCodecReceiveFrame in the main loop, then the progress update.
MainReceiveFrame ==
    /\ pc = "recvFrame"
    /\ \/ /\ Abort("receiveFrame")
          /\ UNCHANGED <<samplesRead, decQ, decReady, decFrame, cbLog, decodedLog>>
       \/ /\ decReady = 0
          /\ pc' = "read"
          /\ UNCHANGED <<res, encRet, libErr, samplesRead, decQ, decReady,
                         decFrame, cbLog, decodedLog>>
       \/ /\ decReady > 0
          /\ decFrame' = Head(decQ)
          /\ decQ' = Tail(decQ)
          /\ decReady' = decReady - 1
          /\ decodedLog' = Append(decodedLog, Head(decQ))
          /\ samplesRead' = AddSamples(samplesRead, Head(decQ))
          /\ cbLog' = IF InvokesCallback(cbSet, totalSamples)
                      THEN Append(cbLog, [sp |-> samplesRead', total |-> totalSamples])
                      ELSE cbLog
          /\ pc' = "pushFrame"
          /\ UNCHANGED <<res, encRet, libErr>>
    /\ UNCHANGED <<restLife, ret, cbSet, nextPts, reads, decFlushed, filtVars,
                   codVars, outVars, pushedLog, filteredLog, stampLog, pktLog>>
    /\ UNCHANGED <<otherPkts, appVars>>

\* AVBuffersrcAddFrameFlags(decFrame) in the main loop.
MainPush ==
    /\ pc = "pushFrame"
    /\ \/ /\ Abort("push")
          /\ UNCHANGED <<filtBuf, resampAcc, pushedLog>>
       \/ /\ filtBuf' = filtBuf + Resample(decFrame, resampAcc, inRate).out
          /\ resampAcc' = Resample(decFrame, resampAcc, inRate).acc
          /\ pushedLog' = Append(pushedLog, decFrame)
          /\ pc' = "getFiltered"
          /\ UNCHANGED <<res, encRet, libErr>>
    /\ UNCHANGED <<restLife, ret, cbSet, cntVars, reads, decVars, filtFlushed,
                   filteredFrame, codVars, outVars, cbLog, decodedLog,
                   filteredLog, stampLog, pktLog>>
    /\ UNCHANGED <<otherPkts, appVars>>

\* after encoding one filtered frame the loop goes back to the decoder
\* without polling the filter graph again
MainGetFiltered_OneShot ==
    /\ pc = "getFiltered"
    /\ \/ /\ Abort("getFiltered")
          /\ UNCHANGED <<ret, filtBuf, filteredFrame, filteredLog>>
       \/ /\ FilterOut(filtBuf, filtFlushed) = 0
          /\ pc' = "recvFrame"
          /\ UNCHANGED <<res, encRet, libErr, ret, filtBuf, filteredFrame,
                         filteredLog>>
       \/ /\ FilterOut(filtBuf, filtFlushed) > 0
          /\ \E sp \in SourcePts :
               filteredFrame' = [pts |-> sp, nb |-> FilterOut(filtBuf, filtFlushed)]
          /\ filtBuf' = filtBuf - FilterOut(filtBuf, filtFlushed)
          /\ filteredLog' = Append(filteredLog, FilterOut(filtBuf, filtFlushed))
          /\ ret' = "recvFrame"
          /\ pc' = "encSend"
          /\ UNCHANGED <<res, encRet, libErr>>
    /\ UNCHANGED <<restLife, cbSet, cntVars, reads, decVars, resampAcc,
                   filtFlushed, codVars, outVars, cbLog, decodedLog, pushedLog,
                   stampLog, pktLog>>
    /\ UNCHANGED <<otherPkts, appVars>>

\* AVBuffersinkGetFrame in the main loop: a frame goes to encodeFrame,
\* EAGAIN goes back to the decoder.
MainGetFiltered ==
    /\ pc = "getFiltered"
    /\ \/ /\ Abort("getFiltered")
          /\ UNCHANGED <<ret, filtBuf, filteredFrame, filteredLog>>
       \/ /\ FilterOut(filtBuf, filtFlushed) = 0
          /\ pc' = "recvFrame"
          /\ UNCHANGED <<res, encRet, libErr, ret, filtBuf, filteredFrame,
                         filteredLog>>
       \/ /\ FilterOut(filtBuf, filtFlushed) > 0
          /\ \E sp \in SourcePts :
               filteredFrame' = [pts |-> sp, nb |-> FilterOut(filtBuf, filtFlushed)]
          /\ filtBuf' = filtBuf - FilterOut(filtBuf, filtFlushed)
          /\ filteredLog' = Append(filteredLog, FilterOut(filtBuf, filtFlushed))
          /\ ret' = "getFiltered"
          /\ pc' = "encSend"
          /\ UNCHANGED <<res, encRet, libErr>>
    /\ UNCHANGED <<restLife, cbSet, cntVars, reads, decVars, resampAcc,
                   filtFlushed, codVars, outVars, cbLog, decodedLog, pushedLog,
                   stampLog, pktLog>>
    /\ UNCHANGED <<otherPkts, appVars>>

\* the running counter advances but the frame keeps the timestamp the
\* filter graph gave it
StampFrame_KeepSourcePts(frame, next) ==
    [frame |-> frame, next |-> next + frame.nb]

\* frame.SetPts(e.nextPts); e.nextPts += frame.NbSamples()
StampFrame(frame, next) ==
    [frame |-> [frame EXCEPT !.pts = next], next |-> next + frame.nb]

\* encodeFrame, first half: stamp the frame, AVCodecSendFrame.  The encoder
\* may hold the frame back until a later send or its flush.
EncSendFrame ==
    /\ pc = "encSend"
    /\ filteredFrame' = StampFrame(filteredFrame, nextPts).frame
    /\ nextPts' = StampFrame(filteredFrame, nextPts).next
    /\ stampLog' = Append(stampLog, filteredFrame')
    /\ \/ /\ Abort("sendFrame")
          /\ UNCHANGED <<encQ, encReady>>
       \/ /\ encQ' = Append(encQ, filteredFrame')
          /\ \E hold \in BOOLEAN :
               encReady' = IF hold THEN Len(encQ) ELSE Len(encQ) + 1
          /\ pc' = "encRecv"
          /\ UNCHANGED <<res, encRet, libErr>>
    /\ UNCHANGED <<restLife, ret, cbSet, samplesRead, reads, decVars, filtBuf,
                   resampAcc, filtFlushed, encFlushed, encPkt, outVars, cbLog,
                   decodedLog, pushedLog, filteredLog, pktLog>>
    /\ UNCHANGED <<otherPkts, appVars>>

\* encodeFrame, packet loop: AVCodecReceivePacket; EAGAIN / EOF returns nil
\* to the calling loop.
EncReceivePacket ==
    /\ pc = "encRecv"
    /\ \/ /\ Abort("receivePacket")
          /\ UNCHANGED <<encQ, encReady, encPkt, pktLog>>
       \/ /\ encReady = 0
          /\ pc' = ret
          /\ UNCHANGED <<res, encRet, libErr, encQ, encReady, encPkt, pktLog>>
       \/ /\ encReady > 0
          /\ encPkt' = Head(encQ)
          /\ encQ' = Tail(encQ)
          /\ encReady' = encReady - 1
          /\ pktLog' = Append(pktLog, Head(encQ))
          /\ pc' = "write"
          /\ UNCHANGED <<res, encRet, libErr>>
    /\ UNCHANGED <<restLife, ret, cbSet, cntVars, reads, decVars, filtVars,
                   encFlushed, outVars, cbLog, decodedLog, pushedLog,
                   filteredLog, stampLog>>
    /\ UNCHANGED <<otherPkts, appVars>>

\* the write error is noticed but the packet loop goes on
EncWrite_IgnoreError ==
    /\ pc = "write"
    /\ \/ /\ libErr' = "write" /\ pc' = "encRecv"
          /\ UNCHANGED <<res, encRet, written>>
       \/ /\ written' = Append(written, encPkt)
          /\ pc' = "encRecv"
          /\ UNCHANGED <<res, encRet, libErr>>
    /\ UNCHANGED <<restLife, ret, cbSet, cntVars, reads, decVars, filtVars,
                   codVars, trailers, logVars>>
    /\ UNCHANGED <<otherPkts, appVars>>

\* encodeFrame, packet loop: AVInterleavedWriteFrame.
EncWrite ==
    /\ pc = "write"
    /\ \/ Abort("write") /\ UNCHANGED written
       \/ /\ written' = Append(written, encPkt)
          /\ pc' = "encRecv"
          /\ UNCHANGED <<res, encRet, libErr>>
    /\ UNCHANGED <<restLife, ret, cbSet, cntVars, reads, decVars, filtVars,
                   codVars, trailers, logVars>>
    /\ UNCHANGED <<otherPkts, appVars>>

\* Flush decoder: AVCodecSendPacket(nil); every frame still inside the
\* decoder becomes available.
FlushDecSend ==
    /\ pc = "flushDec"
    /\ \/ Abort("flushDecoder") /\ UNCHANGED <<decReady, decFlushed>>
       \/ /\ decFlushed' = TRUE
          /\ decReady' = Len(decQ)
          /\ pc' = "flushRecvFrame"
          /\ UNCHANGED <<res, encRet, libErr>>
    /\ UNCHANGED <<restLife, ret, cbSet, cntVars, reads, decQ, decFrame,
                   filtVars, codVars, outVars, logVars>>
    /\ UNCHANGED <<otherPkts, appVars>>

\* the drained decoder is followed by the encoder flush, the filter graph
\* flush is left out
FlushReceiveFrame_SkipFilterFlush ==
    /\ pc = "flushRecvFrame"
    /\ \/ /\ Abort("flushReceiveFrame")
          /\ UNCHANGED <<decQ, decReady, decFrame, decodedLog>>
       \/ /\ decReady = 0
          /\ pc' = "flushEnc"
          /\ UNCHANGED <<res, encRet, libErr, decQ, decReady, decFrame,
                         decodedLog>>
       \/ /\ decReady > 0
          /\ decFrame' = Head(decQ)
          /\ decQ' = Tail(decQ)
          /\ decReady' = decReady - 1
          /\ decodedLog' = Append(decodedLog, Head(decQ))
          /\ pc' = "flushPushFrame"
          /\ UNCHANGED <<res, encRet, libErr>>
    /\ UNCHANGED <<restLife, ret, cbSet, cntVars, reads, decFlushed, filtVars,
                   codVars, outVars, cbLog, pushedLog, filteredLog, stampLog,
                   pktLog>>
    /\ UNCHANGED <<otherPkts, appVars>>

\* AVCodecReceiveFrame while the decoder is drained: no progress update.
FlushReceiveFrame ==
    /\ pc = "flushRecvFrame"
    /\ \/ /\ Abort("flushReceiveFrame")
          /\ UNCHANGED <<decQ, decReady, decFrame, decodedLog>>
       \/ /\ decReady = 0
          /\ pc' = "flushFilt"
          /\ UNCHANGED <<res, encRet, libErr, decQ, decReady, decFrame,
                         decodedLog>>
       \/ /\ decReady > 0
          /\ decFrame' = Head(decQ)
          /\ decQ' = Tail(decQ)
          /\ decReady' = decReady - 1
          /\ decodedLog' = Append(decodedLog, Head(decQ))
          /\ pc' = "flushPushFrame"
          /\ UNCHANGED <<res, encRet, libErr>>
    /\ UNCHANGED <<restLife, ret, cbSet, cntVars, reads, decFlushed, filtVars,
                   codVars, outVars, cbLog, pushedLog, filteredLog, stampLog,
                   pktLog>>
    /\ UNCHANGED <<otherPkts, appVars>>

\* AVBuffersrcAddFrameFlags(decFrame) while the decoder is drained.
FlushPush ==
    /\ pc = "flushPushFrame"
    /\ \/ /\ Abort("flushPush")
          /\ UNCHANGED <<filtBuf, resampAcc, pushedLog>>
       \/ /\ filtBuf' = filtBuf + Resample(decFrame, resampAcc, inRate).out
          /\ resampAcc' = Resample(decFrame, resampAcc, inRate).acc
          /\ pushedLog' = Append(pushedLog, decFrame)
          /\ pc' = "flushGetFiltered"
          /\ UNCHANGED <<res, encRet, libErr>>
    /\ UNCHANGED <<restLife, ret, cbSet, cntVars, reads, decVars, filtFlushed,
                   filteredFrame, codVars, outVars, cbLog, decodedLog,
                   filteredLog, stampLog, pktLog>>
    /\ UNCHANGED <<otherPkts, appVars>>

\* AVBuffersinkGetFrame while the decoder is drained.
FlushGetFiltered ==
    /\ pc = "flushGetFiltered"
    /\ \/ /\ Abort("flushGetFiltered")
          /\ UNCHANGED <<ret, filtBuf, filteredFrame, filteredLog>>
       \/ /\ FilterOut(filtBuf, filtFlushed) = 0
          /\ pc' = "flushRecvFrame"
          /\ UNCHANGED <<res, encRet, libErr, ret, filtBuf, filteredFrame,
                         filteredLog>>
       \/ /\ FilterOut(filtBuf, filtFlushed) > 0
          /\ \E sp \in SourcePts :
               filteredFrame' = [pts |-> sp, nb |-> FilterOut(filtBuf, filtFlushed)]
          /\ filtBuf' = filtBuf - FilterOut(filtBuf, filtFlushed)
          /\ filteredLog' = Append(filteredLog, FilterOut(filtBuf, filtFlushed))
          /\ ret' = "flushGetFiltered"
          /\ pc' = "encSend"
          /\ UNCHANGED <<res, encRet, libErr>>
    /\ UNCHANGED <<restLife, cbSet, cntVars, reads, decVars, resampAcc,
                   filtFlushed, codVars, outVars, cbLog, decodedLog, pushedLog,
                   stampLog, pktLog>>
    /\ UNCHANGED <<otherPkts, appVars>>

\* Flush filter graph: AVBuffersrcAddFrameFlags(nil).
FlushFiltSend ==
    /\ pc = "flushFilt"
    /\ \/ Abort("flushFilter") /\ UNCHANGED filtFlushed
       \/ /\ filtFlushed' = TRUE
          /\ pc' = "drainFilt"
          /\ UNCHANGED <<res, encRet, libErr>>
    /\ UNCHANGED <<restLife, ret, cbSet, cntVars, reads, decVars, filtBuf,
                   resampAcc, filteredFrame, codVars, outVars, logVars>>
    /\ UNCHANGED <<otherPkts, appVars>>

\* the frames pulled after the flush are unreferenced without encodeFrame
DrainGetFiltered_DropFrame ==
    /\ pc = "drainFilt"
    /\ \/ /\ Abort("drainGetFiltered")
          /\ UNCHANGED <<ret, filtBuf, filteredFrame, filteredLog>>
       \/ /\ FilterOut(filtBuf, filtFlushed) = 0
          /\ pc' = "flushEnc"
          /\ UNCHANGED <<res, encRet, libErr, ret, filtBuf, filteredFrame,
                         filteredLog>>
       \/ /\ FilterOut(filtBuf, filtFlushed) > 0
          /\ \E sp \in SourcePts :
               filteredFrame' = [pts |-> sp, nb |-> FilterOut(filtBuf, filtFlushed)]
          /\ filtBuf' = filtBuf - FilterOut(filtBuf, filtFlushed)
          /\ filteredLog' = Append(filteredLog, FilterOut(filtBuf, filtFlushed))
          /\ pc' = "drainFilt"
          /\ UNCHANGED <<res, encRet, libErr, ret>>
    /\ UNCHANGED <<restLife, cbSet, cntVars, reads, decVars, resampAcc,
                   filtFlushed, codVars, outVars, cbLog, decodedLog, pushedLog,
                   stampLog, pktLog>>
    /\ UNCHANGED <<otherPkts, appVars>>

\* AVBuffersinkGetFrame after the graph was flushed: the remaining chunks
\* and the final shorter frame go to encodeFrame.
DrainGetFiltered ==
    /\ pc = "drainFilt"
    /\ \/ /\ Abort("drainGetFiltered")
          /\ UNCHANGED <<ret, filtBuf, filteredFrame, filteredLog>>
       \/ /\ FilterOut(filtBuf, filtFlushed) = 0
          /\ pc' = "flushEnc"
          /\ UNCHANGED <<res, encRet, libErr, ret, filtBuf, filteredFrame,
                         filteredLog>>
       \/ /\ FilterOut(filtBuf, filtFlushed) > 0
          /\ \E sp \in SourcePts :
               filteredFrame' = [pts |-> sp, nb |-> FilterOut(filtBuf, filtFlushed)]
          /\ filtBuf' = filtBuf - FilterOut(filtBuf, filtFlushed)
          /\ filteredLog' = Append(filteredLog, FilterOut(filtBuf, filtFlushed))
          /\ ret' = "drainFilt"
          /\ pc' = "encSend"
          /\ UNCHANGED <<res, encRet, libErr>>
    /\ UNCHANGED <<restLife, cbSet, cntVars, reads, decVars, resampAcc,
                   filtFlushed, codVars, outVars, cbLog, decodedLog, pushedLog,
                   stampLog, pktLog>>
    /\ UNCHANGED <<otherPkts, appVars>>

\* flushEncoder: AVCodecSendFrame(nil); every frame still inside the
\* encoder becomes available as a packet.
FlushEncSend ==
    /\ pc = "flushEnc"
    /\ \/ Abort("flushEncoder") /\ UNCHANGED <<encReady, encFlushed>>
       \/ /\ encFlushed' = TRUE
          /\ encReady' = Len(encQ)
          /\ pc' = "flushEncRecv"
          /\ UNCHANGED <<res, encRet, libErr>>
    /\ UNCHANGED <<restLife, ret, cbSet, cntVars, reads, decVars, filtVars,
                   encQ, encPkt, outVars, logVars>>
    /\ UNCHANGED <<otherPkts, appVars>>

\* flushEncoder, packet loop: AVCodecReceivePacket.
FlushEncReceive ==
    /\ pc = "flushEncRecv"
    /\ \/ /\ Abort("flushReceivePacket")
          /\ UNCHANGED <<encQ, encReady, encPkt, pktLog>>
       \/ /\ encReady = 0
          /\ pc' = "trailer"
          /\ UNCHANGED <<res, encRet, libErr, encQ, encReady, encPkt, pktLog>>
       \/ /\ encReady > 0
          /\ encPkt' = Head(encQ)
          /\ encQ' = Tail(encQ)
          /\ encReady' = encReady - 1
          /\ pktLog' = Append(pktLog, Head(encQ))
          /\ pc' = "flushEncWrite"
          /\ UNCHANGED <<res, encRet, libErr>>
    /\ UNCHANGED <<restLife, ret, cbSet, cntVars, reads, decVars, filtVars,
                   encFlushed, outVars, cbLog, decodedLog, pushedLog,
                   filteredLog, stampLog>>
    /\ UNCHANGED <<otherPkts, appVars>>

\* flushEncoder, packet loop: AVInterleavedWriteFrame.
FlushEncWrite ==
    /\ pc = "flushEncWrite"
    /\ \/ Abort("flushWrite") /\ UNCHANGED written
       \/ /\ written' = Append(written, encPkt)
          /\ pc' = "flushEncRecv"
          /\ UNCHANGED <<res, encRet, libErr>>
    /\ UNCHANGED <<restLife, ret, cbSet, cntVars, reads, decVars, filtVars,
                   codVars, trailers, logVars>>
    /\ UNCHANGED <<otherPkts, appVars>>

\* the trailer error is swallowed: nil is returned either way
WriteTrailer_SwallowError ==
    /\ pc = "trailer"
    /\ \/ /\ libErr' = "trailer" /\ Return("nil") /\ UNCHANGED trailers
       \/ /\ trailers' = trailers + 1
          /\ Return("nil")
          /\ UNCHANGED libErr
    /\ UNCHANGED <<restLife, ret, cbSet, cntVars, reads, decVars, filtVars,
                   codVars, written, logVars>>
    /\ UNCHANGED <<otherPkts, appVars>>

\* AVWriteTrailer, then return nil.
WriteTrailer ==
    /\ pc = "trailer"
    /\ \/ Abort("trailer") /\ UNCHANGED trailers
       \/ /\ trailers' = trailers + 1
          /\ Return("nil")
          /\ UNCHANGED libErr
    /\ UNCHANGED <<restLife, ret, cbSet, cntVars, reads, decVars, filtVars,
                   codVars, written, logVars>>
    /\ UNCHANGED <<otherPkts, appVars>>

\* One use of an Encoder up to the return of Encode(): Initialize(), then
\* Encode() step by step.
NextEncode ==
    \/ Initialize \/ EncodeStart
    \/ MainRead \/ MainSendPacket \/ MainReceiveFrame \/ MainPush
    \/ MainGetFiltered
    \/ EncSendFrame \/ EncReceivePacket \/ EncWrite
    \/ FlushDecSend \/ FlushReceiveFrame \/ FlushPush \/ FlushGetFiltered
    \/ FlushFiltSend \/ DrainGetFiltered
    \/ FlushEncSend \/ FlushEncReceive \/ FlushEncWrite
    \/ WriteTrailer

SpecEncode == Init /\ [][NextEncode]_vars

\* The whole life of an Encoder: the same, with Close() called by the owner
\* before or after Encode().
Next == NextEncode \/ CloseCall

Spec == Init /\ [][Next]_vars

\* ------------------------------------------- the command-line program
\* The Configs main may build from its arguments.
Cfgs == [inputPath : {"", "in.flac"}, outputPath : {"", "out.mp3"},
         stereo : BOOLEAN]

NewResult_NoOutputCheck(c) == IF c.inputPath = "" THEN "err" ELSE "ok"

\* New(): both paths must be non-empty.
NewResult(c) ==
    IF c.inputPath = "" THEN "err"
    ELSE IF c.outputPath = "" THEN "err"
    ELSE "ok"

\* main() at the call of encoder.New.
InitApp ==
    /\ EncoderInit
    /\ cfg \in Cfgs /\ newRet = "pending" /\ mainPc = "start"
    /\ UIIdle /\ ToolIdle

\* The output file exists once avio_open succeeded.
FileCreated == res.acq["pb"] > 0

\* The process is running: its goroutines can take steps.
Alive == mainPc # "exited"

ProgressMsg(u) == [kind |-> "progress", sp |-> u.sp, total |-> u.total,
                   err |-> "nil"]
CompleteMsg(e) == [kind |-> "complete", sp |-> 0, total |-> 0, err |-> e]

\* enc, err := encoder.New(cfg); on error: PrintError, os.Exit(1).
MainNew ==
    /\ mainPc = "start" /\ newRet = "pending"
    /\ newRet' = NewResult(cfg)
    /\ IF NewResult(cfg) = "err"
       THEN reported' = TRUE /\ mainPc' = "exited"
       ELSE mainPc' = "init" /\ UNCHANGED reported
    /\ UNCHANGED <<cfg, removed, tagged, uiVars, chanVars, goVars>>
    /\ UNCHANGED <<lifeVars, ctlVars, pipeVars>>
    /\ UNCHANGED toolVars

MainCheckInit_TwoWaiters ==
    /\ mainPc = "init" /\ initState # "none"
    /\ IF initState = "failed"
       THEN /\ reported' = TRUE /\ mainPc' = "exited"
            /\ UNCHANGED <<uiPc, waiters, gPc>>
       ELSE /\ mainPc' = "ui" /\ uiPc' = "running"
            /\ gPc' = "encoding" /\ waiters' = 2
            /\ UNCHANGED reported
    /\ UNCHANGED <<cfg, newRet, removed, tagged>>
    /\ UNCHANGED <<interrupted, msgs, mSamples, mTotal, complete, mErr>>
    /\ UNCHANGED <<chanVars, produced, curUpdate, gRet>>
    /\ UNCHANGED <<lifeVars, ctlVars, pipeVars>>
    /\ UNCHANGED toolVars

\* After enc.Initialize(): on error PrintError and os.Exit(1); otherwise
\* tea.NewProgram(encodeModel).Run(), whose Init() starts the encoding
\* goroutine and one waitForProgress command.
MainCheckInit ==
    /\ mainPc = "init" /\ initState # "none"
    /\ IF initState = "failed"
       THEN /\ reported' = TRUE /\ mainPc' = "exited"
            /\ UNCHANGED <<uiPc, waiters, gPc>>
       ELSE /\ mainPc' = "ui" /\ uiPc' = "running"
            /\ gPc' = "encoding" /\ waiters' = 1
            /\ UNCHANGED reported
    /\ UNCHANGED <<cfg, newRet, removed, tagged>>
    /\ UNCHANGED <<interrupted, msgs, mSamples, mTotal, complete, mErr>>
    /\ UNCHANGED <<chanVars, produced, curUpdate, gRet>>
    /\ UNCHANGED <<lifeVars, ctlVars, pipeVars>>
    /\ UNCHANGED toolVars

TrySend_DropOldest(ch, u) ==
    IF Len(ch) < ChanCap THEN Append(ch, u) ELSE Append(Tail(ch), u)

TrySend_ReplaceNewest(ch, u) ==
    IF Len(ch) < ChanCap THEN Append(ch, u) ELSE [ch EXCEPT ![Len(ch)] = u]

TrySend_Unbounded(ch, u) == Append(ch, u)

\* select { case m.progressChan <- u: default: }
TrySend(ch, u) == IF Len(ch) < ChanCap THEN Append(ch, u) ELSE ch

\* One invocation of the callback startEncoding hands to Encode().  Encode
\* is seen here from the outside: it invokes the callback once per decoded
\* frame when totalSamples > 0, with a growing samplesProcessed (here the
\* ordinal of the invocation).
ProgressCallback ==
    /\ gPc = "encoding" /\ Alive
    /\ InvokesCallback(TRUE, totalSamples)
    /\ produced < MaxUpdates
    /\ LET u == [sp |-> produced + 1, total |-> totalSamples]
       IN /\ curUpdate' = u
          /\ progressChan' = TrySend(progressChan, u)
    /\ produced' = produced + 1
    /\ UNCHANGED <<gPc, gRet, chanClosed, taken, mainVars, uiVars>>
    /\ UNCHANGED <<lifeVars, ctlVars, pipeVars>>
    /\ UNCHANGED toolVars

EncodeReturns_NoClose ==
    /\ gPc = "encoding" /\ Alive
    /\ \E e \in {"nil", "err"} :
        /\ gRet' = e
        /\ msgs' = msgs \cup {CompleteMsg(e)}
    /\ gPc' = "done"
    /\ UNCHANGED <<produced, curUpdate, chanVars, mainVars>>
    /\ UNCHANGED <<uiPc, interrupted, waiters, mSamples, mTotal, complete, mErr>>
    /\ UNCHANGED <<lifeVars, ctlVars, pipeVars>>
    /\ UNCHANGED toolVars

EncodeReturns_CloseFirst ==
    /\ gPc = "encoding" /\ Alive /\ ~chanClosed
    /\ chanClosed' = TRUE
    /\ UNCHANGED <<goVars, progressChan, taken, mainVars, uiVars>>
    /\ UNCHANGED <<lifeVars, ctlVars, pipeVars>>
    /\ UNCHANGED toolVars

\* Encode() returns in the goroutine: close(m.progressChan), then the
\* command yields EncodingCompleteMsg{Err: err}.
EncodeReturns ==
    /\ gPc = "encoding" /\ Alive
    /\ \E e \in {"nil", "err"} :
        /\ gRet' = e
        /\ msgs' = msgs \cup {CompleteMsg(e)}
    /\ chanClosed' = TRUE
    /\ gPc' = "done"
    /\ UNCHANGED <<produced, curUpdate, progressChan, taken, mainVars>>
    /\ UNCHANGED <<uiPc, interrupted, waiters, mSamples, mTotal, complete, mErr>>
    /\ UNCHANGED <<lifeVars, ctlVars, pipeVars>>
    /\ UNCHANGED toolVars

\* A waitForProgress command: receive from the channel; a closed and
\* drained channel yields a nil message, which the runtime ignores.
WaitForProgress ==
    /\ waiters > 0 /\ Alive
    /\ \/ /\ progressChan # << >>
          /\ taken' = Append(taken, Head(progressChan))
          /\ progressChan' = Tail(progressChan)
          /\ msgs' = msgs \cup {ProgressMsg(Head(progressChan))}
       \/ /\ progressChan = << >> /\ chanClosed
          /\ UNCHANGED <<progressChan, taken, msgs>>
    /\ waiters' = waiters - 1
    /\ UNCHANGED <<chanClosed, goVars, mainVars>>
    /\ UNCHANGED <<uiPc, interrupted, mSamples, mTotal, complete, mErr>>
    /\ UNCHANGED <<lifeVars, ctlVars, pipeVars>>
    /\ UNCHANGED toolVars

\* The program still dispatches messages to Update.
Dispatching == uiPc \in {"running", "quitting"} /\ Alive

\* Update, case ProgressUpdate: store the values; an update carrying an
\* error completes the model and quits, any other re-arms waitForProgress.
UpdateProgress ==
    /\ Dispatching
    /\ \E m \in msgs :
        /\ m.kind = "progress"
        /\ mSamples' = m.sp /\ mTotal' = m.total
        /\ msgs' = msgs \ {m}
        /\ IF m.err # "nil"
           THEN /\ mErr' = m.err /\ complete' = TRUE /\ uiPc' = "quitting"
                /\ UNCHANGED waiters
           ELSE /\ waiters' = waiters + 1
                /\ UNCHANGED <<uiPc, complete, mErr>>
    /\ UNCHANGED interrupted
    /\ UNCHANGED <<mainVars, chanVars, goVars>>
    /\ UNCHANGED <<lifeVars, ctlVars, pipeVars>>
    /\ UNCHANGED toolVars

\* Update, case EncodingCompleteMsg: complete, err = msg.Err, tea.Quit.
UpdateComplete ==
    /\ Dispatching
    /\ \E m \in msgs :
        /\ m.kind = "complete"
        /\ mErr' = m.err
        /\ msgs' = msgs \ {m}
    /\ complete' = TRUE
    /\ uiPc' = "quitting"
    /\ UNCHANGED <<interrupted, waiters, mSamples, mTotal>>
    /\ UNCHANGED <<mainVars, chanVars, goVars>>
    /\ UNCHANGED <<lifeVars, ctlVars, pipeVars>>
    /\ UNCHANGED toolVars

UpdateKey_MarksComplete ==
    /\ Dispatching /\ ~interrupted
    /\ interrupted' = TRUE
    /\ complete' = TRUE
    /\ uiPc' = "quitting"
    /\ UNCHANGED <<msgs, waiters, mSamples, mTotal, mErr>>
    /\ UNCHANGED <<mainVars, chanVars, goVars>>
    /\ UNCHANGED <<lifeVars, ctlVars, pipeVars>>
    /\ UNCHANGED toolVars

UpdateKey_Cancel ==
    /\ Dispatching /\ ~interrupted
    /\ interrupted' = TRUE
    /\ uiPc' = "quitting"
    /\ gPc' = IF gPc = "encoding" THEN "done" ELSE gPc
    /\ gRet' = IF gPc = "encoding" THEN "err" ELSE gRet
    /\ UNCHANGED <<msgs, waiters, mSamples, mTotal, complete, mErr>>
    /\ UNCHANGED <<mainVars, chanVars, produced, curUpdate>>
    /\ UNCHANGED <<lifeVars, ctlVars, pipeVars>>
    /\ UNCHANGED toolVars

\* Update, case tea.KeyMsg "ctrl+c": return m, tea.Quit.  Nothing else is
\* touched: m.err stays nil, m.complete stays false.
UpdateKey ==
    /\ Dispatching /\ ~interrupted
    /\ interrupted' = TRUE
    /\ uiPc' = "quitting"
    /\ UNCHANGED <<msgs, waiters, mSamples, mTotal, complete, mErr>>
    /\ UNCHANGED <<mainVars, chanVars, goVars>>
    /\ UNCHANGED <<lifeVars, ctlVars, pipeVars>>
    /\ UNCHANGED toolVars

\* The QuitMsg of tea.Quit reaches the event loop: p.Run() returns.
QuitMsg ==
    /\ uiPc = "quitting" /\ Alive
    /\ uiPc' = "quit"
    /\ UNCHANGED <<interrupted, msgs, waiters, mSamples, mTotal, complete, mErr>>
    /\ UNCHANGED <<mainVars, chanVars, goVars>>
    /\ UNCHANGED <<lifeVars, ctlVars, pipeVars>>
    /\ UNCHANGED toolVars

\* After p.Run(): if encModel.Error() != nil, PrintError, os.Remove and
\* os.Exit(1); otherwise go on to the tags.
MainCheckEncode ==
    /\ mainPc = "ui" /\ uiPc = "quit"
    /\ IF mErr # "nil"
       THEN reported' = TRUE /\ removed' = TRUE /\ mainPc' = "exited"
       ELSE mainPc' = "tag" /\ UNCHANGED <<reported, removed>>
    /\ UNCHANGED <<cfg, newRet, tagged, uiVars, chanVars, goVars>>
    /\ UNCHANGED <<lifeVars, ctlVars, pipeVars>>
    /\ UNCHANGED toolVars

\* id3.WriteTags(outputPath, ...): on error PrintError and os.Exit(1),
\* keeping the MP3.
MainWriteTags ==
    /\ mainPc = "tag"
    /\ tagged' = TRUE
    /\ \E ok \in BOOLEAN :
        IF ok THEN mainPc' = "stats" /\ UNCHANGED reported
        ELSE mainPc' = "exited" /\ reported' = TRUE
    /\ UNCHANGED <<cfg, newRet, removed, uiVars, chanVars, goVars>>
    /\ UNCHANGED <<lifeVars, ctlVars, pipeVars>>
    /\ UNCHANGED toolVars

\* Statistics, then main returns: the deferred enc.Close() runs and the
\* process ends, taking its goroutines with it.  When Encode() is still
\* running on the goroutine, Close() frees what Encode() is using: the
\* process either gets through Close() or crashes.
MainReturn ==
    /\ mainPc = "stats"
    /\ \E race \in (IF gPc = "encoding" THEN {"closed", "crash"}
                                         ELSE {"closed"}) :
         res' = IF race = "crash" THEN [res EXCEPT !.crashed = TRUE]
                ELSE Close(res, "pbNil")
    /\ mainPc' = "exited"
    /\ UNCHANGED <<cfg, newRet, reported, removed, tagged>>
    /\ UNCHANGED <<uiVars, chanVars, goVars>>
    /\ UNCHANGED <<restLife, ctlVars, pipeVars>>
    /\ UNCHANGED toolVars

NextApp ==
    \/ MainNew
    \/ Initialize
    \/ MainCheckInit
    \/ ProgressCallback
    \/ EncodeReturns
    \/ WaitForProgress
    \/ UpdateProgress
    \/ UpdateComplete
    \/ UpdateKey
    \/ QuitMsg
    \/ MainCheckEncode
    \/ MainWriteTags
    \/ MainReturn

\* The command-line program: main, the UI's event loop, the encoding
\* goroutine and the waitForProgress commands.
SpecApp == InitApp /\ [][NextApp]_vars

\* What the runtimes guarantee: the Go scheduler runs a command's goroutine
\* that can proceed, and the event loop of tea.Program handles every
\* message that reaches it while Run() is active.  Nothing is assumed of
\* the user, of Encode() or of main.
SpecAppLive ==
    /\ SpecApp
    /\ WF_vars(WaitForProgress)
    /\ WF_vars(UpdateProgress)
    /\ WF_vars(UpdateComplete)
    /\ WF_vars(QuitMsg)

\* ------------------------------------------------- stream selection
\* A stream of the container: its media type and the rank FFmpeg's
\* av_find_best_stream gives it (disposition, decoded frames, bit rate).
Streams == [type : {"audio", "video"}, rank : 0..1]

\* All sequences over S of length at most n.
SeqUpTo(S, n) == UNION {[1..k -> S] : k \in 0..n}

AudioStreams(c) == {i \in 1..Len(c) : c[i].type = "audio"}

BestStream_FirstAudio(c) ==
    IF AudioStreams(c) = {} THEN -1
    ELSE (CHOOSE i \in AudioStreams(c) : \A j \in AudioStreams(c) : i <= j) - 1

\* AVFindBestStream(e.ifmtCtx, AVMediaTypeAudio, -1, -1, nil, 0): the index
\* (from 0) of the audio stream of highest rank, the earliest of them when
\* several share it; -1 (an error) when the container has no audio stream.
BestStream(c) ==
    IF AudioStreams(c) = {} THEN -1
    ELSE (CHOOSE i \in AudioStreams(c) :
            \A j \in AudioStreams(c) :
                \/ c[j].rank < c[i].rank
                \/ c[j].rank = c[i].rank /\ i <= j) - 1

InitSelect ==
    /\ ProgIdle /\ FrontmatterIdle /\ SanitiseIdle /\ ArtIdle /\ ModeIdle
    /\ container \in SeqUpTo(Streams, MaxStreams)
    /\ streamIndex = -1 /\ selRet = "pending"

\* openInput, stream selection: on error return before e.streamIndex is
\* assigned.
SelectStream ==
    /\ selRet = "pending"
    /\ IF BestStream(container) < 0
       THEN selRet' = "err" /\ UNCHANGED streamIndex
       ELSE selRet' = "ok" /\ streamIndex' = BestStream(container)
    /\ UNCHANGED <<container, mdFile, fmRet, sanIn, sanOut, imgIn, artOut>>
    /\ UNCHANGED <<fmLog, modeVars>>
    /\ UNCHANGED progVars

SpecSelect == InitSelect /\ [][SelectStream]_vars

\* ------------------------------------------------------ front matter
\* A line of the markdown file: whether it starts with white space, the
\* text up to its first colon (the whole text for a line without one), and
\* the value after "key: ".
MdLine(lead, key, val) == [lead |-> lead, key |-> key, val |-> val]

MdLines == {MdLine(FALSE, "---", ""), MdLine(TRUE, "---", ""),
            MdLine(FALSE, "title", "Episode"),
            MdLine(FALSE, "podcast_duration", "00:10:00"),
            MdLine(TRUE, "podcast_duration", "00:10:00"),
            MdLine(FALSE, "podcast_bytes", "1")}

\* The values main passes: stats.DurationString and stats.FileSizeBytes.
NewDuration == "00:42:00"
NewBytes == 123

\* fmt.Sprintf("%d", n) for the byte counts used here.
FormatInt(n) == CASE n = 0 -> "0" [] n = 1 -> "1" [] n = 123 -> "123"

\* strings.TrimSpace(line) == "---"
IsDelimiter(line) == line.key = "---" /\ line.val = ""

\* strings.HasPrefix(strings.TrimSpace(line), key + ":")
HasKey(line, key) == line.key = key /\ key # "---"

findFrontmatterBounds_OneDelimiter(lines) ==
    LET D == {i \in 1..Len(lines) : IsDelimiter(lines[i])}
        Min(S) == CHOOSE i \in S : \A j \in S : i <= j
    IN IF Cardinality(D) < 1 THEN [ok |-> FALSE, open |-> 0, close |-> 0]
       ELSE IF Cardinality(D) = 1
       THEN [ok |-> TRUE, open |-> Min(D), close |-> Len(lines) + 1]
       ELSE [ok |-> TRUE, open |-> Min(D), close |-> Min(D \ {Min(D)})]

\* findFrontmatterBounds: the positions (from 1) of the first and the second
\* delimiter line, or ok = FALSE when there are fewer than two.
findFrontmatterBounds(lines) ==
    LET D == {i \in 1..Len(lines) : IsDelimiter(lines[i])}
        Min(S) == CHOOSE i \in S : \A j \in S : i <= j
    IN IF Cardinality(D) < 2 THEN [ok |-> FALSE, open |-> 0, close |-> 0]
       ELSE [ok |-> TRUE, open |-> Min(D), close |-> Min(D \ {Min(D)})]

FrontmatterLines_AlwaysInsert(lines, dur, bytes) ==
    LET b == findFrontmatterBounds(lines)
        dl == MdLine(FALSE, "podcast_duration", dur)
        bl == MdLine(FALSE, "podcast_bytes", FormatInt(bytes))
        In(i) == b.open < i /\ i < b.close
        upd == [i \in 1..Len(lines) |->
                  IF In(i) /\ HasKey(lines[i], "podcast_duration") THEN dl
                  ELSE IF In(i) /\ HasKey(lines[i], "podcast_bytes") THEN bl
                  ELSE lines[i]]
        ins == <<dl, bl>>
    IN SubSeq(upd, 1, b.close - 1) \o ins \o SubSeq(upd, b.close, Len(lines))

FrontmatterLines_WholeFile(lines, dur, bytes) ==
    LET b == findFrontmatterBounds(lines)
        dl == MdLine(FALSE, "podcast_duration", dur)
        bl == MdLine(FALSE, "podcast_bytes", FormatInt(bytes))
        In(i) == TRUE
        upd == [i \in 1..Len(lines) |->
                  IF In(i) /\ HasKey(lines[i], "podcast_duration") THEN dl
                  ELSE IF In(i) /\ HasKey(lines[i], "podcast_bytes") THEN bl
                  ELSE lines[i]]
        updated == \E i \in 1..Len(lines) :
                      In(i) /\ HasKey(lines[i], "podcast_duration")
        bytesUpdated == \E i \in 1..Len(lines) :
                           In(i) /\ HasKey(lines[i], "podcast_bytes")
        ins == (IF updated THEN << >> ELSE <<dl>>)
               \o (IF bytesUpdated THEN << >> ELSE <<bl>>)
    IN SubSeq(upd, 1, b.close - 1) \o ins \o SubSeq(upd, b.close, Len(lines))

\* UpdateFrontmatter on lines with valid bounds: rewrite the two fields
\* between the delimiters, insert what is missing before the closing
\* delimiter.
FrontmatterLines(lines, dur, bytes) ==
    LET b == findFrontmatterBounds(lines)
        dl == MdLine(FALSE, "podcast_duration", dur)
        bl == MdLine(FALSE, "podcast_bytes", FormatInt(bytes))
        In(i) == b.open < i /\ i < b.close
        upd == [i \in 1..Len(lines) |->
                  IF In(i) /\ HasKey(lines[i], "podcast_duration") THEN dl
                  ELSE IF In(i) /\ HasKey(lines[i], "podcast_bytes") THEN bl
                  ELSE lines[i]]
        updated == \E i \in 1..Len(lines) :
                      In(i) /\ HasKey(lines[i], "podcast_duration")
        bytesUpdated == \E i \in 1..Len(lines) :
                           In(i) /\ HasKey(lines[i], "podcast_bytes")
        ins == (IF updated THEN << >> ELSE <<dl>>)
               \o (IF bytesUpdated THEN << >> ELSE <<bl>>)
    IN SubSeq(upd, 1, b.close - 1) \o ins \o SubSeq(upd, b.close, Len(lines))

InitFrontmatter ==
    /\ ProgIdle /\ SelectIdle /\ SanitiseIdle /\ ArtIdle /\ ModeIdle
    /\ mdFile \in SeqUpTo(MdLines, MaxLines)
    /\ fmRet = "pending" /\ fmLog = << >>

\* UpdateFrontmatter(markdownPath, duration, bytes): os.ReadFile may
\* fail; invalid front matter is an error; os.WriteFile may fail, leaving
\* the file as it was or truncated.  fmRet is what the latest call
\* returned.
UpdateFrontmatter ==
    /\ Len(fmLog) < MaxCalls
    /\ \E io \in {"ok", "readErr", "writeErr"}, kept \in BOOLEAN :
        IF io = "readErr" \/ ~findFrontmatterBounds(mdFile).ok
        THEN fmRet' = "err" /\ UNCHANGED mdFile
        ELSE IF io = "writeErr"
        THEN fmRet' = "err" /\ mdFile' = IF kept THEN mdFile ELSE << >>
        ELSE /\ fmRet' = "ok"
             /\ mdFile' = FrontmatterLines(mdFile, NewDuration, NewBytes)
    /\ fmLog' = Append(fmLog, fmRet')
    /\ UNCHANGED <<container, streamIndex, selRet, sanIn, sanOut, imgIn, artOut>>
    /\ UNCHANGED modeVars
    /\ UNCHANGED progVars

SpecFrontmatter == InitFrontmatter /\ [][UpdateFrontmatter]_vars

\* ---------------------------------------------------- file names
\* The characters tried: letters of both cases, a digit, the space, the
\* three punctuation marks that are kept, one that is not, and letters
\* outside ASCII.
Chars == {"a", "B", "7", " ", "-", "_", ".", "/", "É", "é"}

\* strings.ToLower on one character.
ToLower(c) == CASE c = "B" -> "b" [] c = "É" -> "é"
                  [] c = "M" -> "m" [] c = "D" -> "d" [] OTHER -> c

\* The test of the filter loop: a-z, 0-9, '-', '_', '.'.
IsSafe(c) == c \in {"a", "b", "7", "-", "_", "."}

sanitiseForFilename_NoLower(s) ==
    LET hyph == [i \in 1..Len(s) |-> IF s[i] = " " THEN "-" ELSE s[i]]
    IN SelectSeq(hyph, IsSafe)

\* sanitiseForFilename: spaces to hyphens, lower case, drop what is not
\* safe.
sanitiseForFilename(s) ==
    LET hyph == [i \in 1..Len(s) |-> IF s[i] = " " THEN "-" ELSE s[i]]
        low == [i \in 1..Len(s) |-> ToLower(hyph[i])]
    IN SelectSeq(low, IsSafe)

InitSanitise ==
    /\ ProgIdle /\ SelectIdle /\ FrontmatterIdle /\ ArtIdle /\ ModeIdle
    /\ sanIn \in SeqUpTo(Chars, MaxLen)
    /\ sanOut = NoResult

\* A call of sanitiseForFilename.
Sanitise ==
    /\ ~sanOut.done
    /\ sanOut' = [done |-> TRUE, s |-> sanitiseForFilename(sanIn)]
    /\ UNCHANGED <<sanIn, container, streamIndex, selRet, mdFile, fmRet, imgIn,
                   artOut>>
    /\ UNCHANGED <<fmLog, modeVars>>
    /\ UNCHANGED progVars

SpecSanitise == InitSanitise /\ [][Sanitise]_vars

\* ------------------------------------------------------- cover art
\* Widths and heights of the images tried.
Sides == {1, 700, 1399, 1400, 2000, 3000, 3001, 4000}

TargetSize_NoUpscale(width) ==
    IF width <= 3000 THEN width ELSE 3000

\* The switch on width: upscale to 1400, keep, or downscale to 3000.
TargetSize(width) ==
    IF width < 1400 THEN 1400
    ELSE IF width <= 3000 THEN width
    ELSE 3000

ArtError == [done |-> TRUE, err |-> TRUE, w |-> 0, h |-> 0, format |-> "none"]

\* ScaleCoverArt on a decoded image: reject what is not square, scale to
\* the target size when it differs, encode as PNG.
ScaledArt(img) ==
    IF img.w # img.h THEN ArtError
    ELSE [done |-> TRUE, err |-> FALSE, w |-> TargetSize(img.w),
          h |-> TargetSize(img.w), format |-> "png"]

InitArt ==
    /\ ProgIdle /\ SelectIdle /\ FrontmatterIdle /\ SanitiseIdle /\ ModeIdle
    /\ imgIn \in [w : Sides, h : Sides]
    /\ artOut = NoArt

\* ScaleCoverArt(inputPath): os.Open, image.Decode or png.Encode may fail.
ScaleCoverArt ==
    /\ ~artOut.done
    /\ \E io \in {"ok", "openErr", "decodeErr", "encodeErr"} :
        artOut' = IF io = "ok" THEN ScaledArt(imgIn) ELSE ArtError
    /\ UNCHANGED <<imgIn, container, streamIndex, selRet, mdFile, fmRet, sanIn,
                   sanOut>>
    /\ UNCHANGED <<fmLog, modeVars>>
    /\ UNCHANGED progVars

SpecArt == InitArt /\ [][ScaleCoverArt]_vars

\* ------------------------------------------------------------ properties
RECURSIVE SumSeq(_)
\* ------------------------------------------------- workflow mode
\* The characters of the second argument: a letter, the dot, and the
\* letters of the extension in both cases.
ModeChars == {"a", ".", "m", "d", "M", "D"}

\* strings.ToLower(s)
LowerStr(s) == [i \in 1..Len(s) |-> ToLower(s[i])]

\* strings.HasSuffix(s, suffix)
HasSuffix(s, suffix) ==
    /\ Len(s) >= Len(suffix)
    /\ SubSeq(s, Len(s) - Len(suffix) + 1, Len(s)) = suffix

DotMd == <<".", "m", "d">>

detectMode_CaseSensitive(audioFile, episodeMD) ==
    IF audioFile = << >> THEN "Hugo"
    ELSE IF episodeMD # << >> /\ HasSuffix(episodeMD, DotMd) THEN "Hugo"
    ELSE "Standalone"

\* detectMode: Hugo without an audio file (main exits before using it),
\* Hugo when the second argument is a .md file, Standalone otherwise.
detectMode(audioFile, episodeMD) ==
    IF audioFile = << >> THEN "Hugo"
    ELSE IF episodeMD # << >> /\ HasSuffix(LowerStr(episodeMD), DotMd)
         THEN "Hugo"
    ELSE "Standalone"

\* validateHugoMode: the markdown argument is required and must end in
\* .md.
validateHugoMode(episodeMD) ==
    IF episodeMD = << >> THEN "missing"
    ELSE IF ~HasSuffix(LowerStr(episodeMD), DotMd) THEN "extension"
    ELSE "nil"

InitMode ==
    /\ ProgIdle /\ SelectIdle /\ FrontmatterIdle /\ SanitiseIdle /\ ArtIdle
    /\ cliArgs \in [audioFile : {<< >>, <<"a">>},
                    episodeMD : SeqUpTo(ModeChars, MaxLen + 1)]
    /\ modeOut = NoMode

\* detectMode() and validateHugoMode() called on the parsed arguments.
DetectMode ==
    /\ ~modeOut.done
    /\ modeOut' = [done |-> TRUE,
                   mode |-> detectMode(cliArgs.audioFile, cliArgs.episodeMD),
                   hugoErr |-> validateHugoMode(cliArgs.episodeMD)]
    /\ UNCHANGED <<cliArgs, container, streamIndex, selRet, mdFile, fmRet,
                   fmLog, sanIn, sanOut, imgIn, artOut>>
    /\ UNCHANGED progVars

SpecMode == InitMode /\ [][DetectMode]_vars

SumSeq(q) == IF q = << >> THEN 0 ELSE Head(q) + SumSeq(Tail(q))

NbOf(q) == [i \in 1..Len(q) |-> q[i].nb]
Prefix(q, n) == [i \in 1..n |-> q[i]]

EncodeFailed == encRet \notin {"none", "nil"}

\* C1: Close() is idempotent and safe in every state: whatever Initialize()
\* did, and however often Close() runs, no native resource is released more
\* often than it was acquired (never twice, never without an acquisition).
C1_NoDoubleRelease == \A r \in Res : res.rel[r] <= res.acq[r]

\* C2: the flush order is decoder, filter graph, encoder: the filter graph
\* is flushed only when the decoder has been flushed and is empty and every
\* frame it yielded has gone through the filter, the encoder and the
\* writer; the encoder is flushed only when the filter graph has been
\* flushed and is empty and all its frames were submitted and their
\* packets written; the decoder is flushed before both.
C2_FlushOrder ==
    [][ /\ (filtFlushed' /\ ~filtFlushed) =>
             /\ decFlushed /\ decQ = << >> /\ ~encFlushed
             /\ pushedLog = decodedLog
             /\ NbOf(stampLog) = filteredLog
             /\ FilterOut(filtBuf, filtFlushed) = 0
             /\ encReady = 0 /\ written = pktLog
        /\ (encFlushed' /\ ~encFlushed) =>
             /\ decFlushed /\ filtFlushed /\ filtBuf = 0
             /\ NbOf(stampLog) = filteredLog
             /\ encReady = 0 /\ written = pktLog
        /\ (decFlushed' /\ ~decFlushed) => (~filtFlushed /\ ~encFlushed)
      ]_vars

C2_Witness ==
    /\ encFlushed /\ libErr = "none"
    /\ Len(decodedLog) > Len(cbLog) /\ cbSet /\ totalSamples > 0
    /\ Len(pktLog) >= 2

\* C3: on a successful Encode() nothing is dropped: the frames pushed to
\* the filter graph are exactly the frames the decoder produced, the frames
\* stamped and submitted to the encoder are exactly the frames the filter
\* graph emitted (the final short one included), the packets written are
\* exactly the packets of those frames, every stage is empty, and the
\* samples written equal the resampled total of the samples decoded.
C3_NoAudioDropped ==
    trailers > 0 =>
        /\ pushedLog = decodedLog
        /\ NbOf(stampLog) = filteredLog
        /\ pktLog = stampLog
        /\ written = pktLog
        /\ decQ = << >> /\ filtBuf = 0 /\ encQ = << >>
        /\ SumSeq(NbOf(written)) = (SumSeq(decodedLog) * OutRate) \div inRate

C3_Witness ==
    /\ trailers > 0 /\ encRet = "nil"
    /\ Len(filteredLog) >= 2
    /\ filteredLog[Len(filteredLog)] < ChunkSize
    /\ Len(decodedLog) > Len(cbLog) /\ cbSet /\ totalSamples > 0

\* C4: the first frame handed to the encoder is stamped 0, each later one
\* is stamped with the previous stamp plus the previous frame's sample
\* count, which is strictly larger; the packets written carry these stamps
\* in the same order.
C4_GapFreeTimestamps ==
    /\ stampLog # << >> => stampLog[1].pts = 0
    /\ \A i \in 2..Len(stampLog) :
         /\ stampLog[i].pts = stampLog[i-1].pts + stampLog[i-1].nb
         /\ stampLog[i].pts > stampLog[i-1].pts
    /\ \A i \in 2..Len(written) : written[i].pts > written[i-1].pts
    /\ written = Prefix(stampLog, Len(written))

C4_Witness ==
    /\ Len(written) >= 3
    /\ stampLog[Len(stampLog)].nb < ChunkSize
    /\ Len(decodedLog) > Len(cbLog) /\ cbSet /\ totalSamples > 0

\* C5: when Initialize() returns an error, every native resource it had
\* acquired has already been released.
C5_InitFailureReleasesAll ==
    (initState = "failed" /\ closes = 0) =>
        \A r \in Res : res.acq[r] > 0 => res.rel[r] >= 1

\* C6: once a library call of Encode() reports an error (other than EAGAIN
\* or end-of-stream), Encode() has returned that error and nothing more
\* happens in the pipeline: no read, submit, write, flush or retry.
C6_AbortImmediately ==
    [][ libErr' # "none" =>
          /\ pc' = "done"
          /\ encRet' = libErr'
          /\ libErr # "none" => UNCHANGED <<libErr, pipeVars>>
      ]_vars

C6_Witness ==
    /\ libErr = "write" /\ pc = "done" /\ encRet = "write"
    /\ Len(written) >= 1 /\ Len(pktLog) > Len(written)

\* C7: the trailer is written at most once, only after the decoder, the
\* filter graph and the encoder were flushed and drained and every packet
\* was written without any error; Encode() returns nil exactly when the
\* trailer was written, and no trailer is written when it returns an error.
C7_TrailerOnce ==
    /\ trailers <= 1
    /\ trailers = 1 =>
         /\ decFlushed /\ filtFlushed /\ encFlushed
         /\ decQ = << >> /\ filtBuf = 0 /\ encQ = << >>
         /\ written = pktLog
         /\ libErr = "none"
    /\ (encRet = "nil") <=> (trailers = 1)
    /\ EncodeFailed => trailers = 0

C7_Witness == trailers = 1 /\ encRet = "nil" /\ Len(written) >= 2

\* C8: after Initialize() or Encode() has returned an error and the caller
\* has called Close() once, nothing the Encoder acquired is still allocated.
C8_NoLeakAfterError ==
    ((initState = "failed" \/ EncodeFailed) /\ closes >= 1) =>
        \A r \in Res : res.rel[r] >= res.acq[r]

C8_Witness ==
    /\ EncodeFailed /\ closes = 1 /\ Len(written) >= 1
    /\ \A r \in Res : res.acq[r] = 1

\* C9: every frame the decoder hands out, in the main loop or during the
\* decoder flush, is added to samplesRead, and with totalSamples > 0 and a
\* callback there is exactly one callback per frame, carrying the running
\* sum and totalSamples.
C9_EveryFrameCounted ==
    /\ samplesRead = SumSeq(decodedLog)
    /\ (cbSet /\ totalSamples > 0) =>
         /\ Len(cbLog) = Len(decodedLog)
         /\ \A i \in 1..Len(cbLog) :
              cbLog[i] = [sp |-> SumSeq(Prefix(decodedLog, i)),
                          total |-> totalSamples]

\* C10: samplesProcessed never decreases from one callback to the next.
C10_ProgressMonotone ==
    \A i \in 2..Len(cbLog) : cbLog[i-1].sp <= cbLog[i].sp

C10_Witness ==
    /\ Len(cbLog) >= 2
    /\ cbLog[2].sp - cbLog[1].sp # cbLog[1].sp

\* The tolerance of the final progress value: max(totalSamples/100, 100).
Tolerance(total) == IF total \div 100 > 100 THEN total \div 100 ELSE 100

\* C11: when Encode() succeeds with a callback and totalSamples > 0, the
\* last callback's samplesProcessed is at least totalSamples minus
\* max(totalSamples/100, 100).  Stated for a source whose reported duration
\* is exactly what it decodes to, so that only the counting is at stake.
C11_FinalProgressNearTotal ==
    (/\ encRet = "nil" /\ cbSet /\ totalSamples > 0 /\ cbLog # << >>
     /\ SumSeq(decodedLog) = totalSamples)
    => cbLog[Len(cbLog)].sp >= totalSamples - Tolerance(totalSamples)

\* C12: in every callback invocation the totalSamples argument is the value
\* computed at Initialize(), and 0 <= samplesProcessed <= totalSamples.
C12_ProgressWithinTotal ==
    \A i \in 1..Len(cbLog) :
        /\ cbLog[i].total = totalSamples
        /\ 0 <= cbLog[i].sp /\ cbLog[i].sp <= totalSamples

\* C13: the callback is invoked only when it is set and totalSamples > 0;
\* a source whose duration is unreported or non-positive has totalSamples 0
\* and therefore no invocation at all.
C13_CallbackOnlyWhenSetAndKnown ==
    /\ cbLog # << >> => cbSet /\ totalSamples > 0
    /\ duration <= 0 => totalSamples = 0 /\ cbLog = << >>

C13_Witness ==
    /\ encRet = "nil" /\ ~cbSet /\ totalSamples > 0 /\ samplesRead > 0

\* C14: New() with an empty input path or an empty output path returns an
\* error and no Encoder; nothing is opened and no output file is created.
C14_EmptyPathRejected ==
    /\ newRet # "pending" =>
         (newRet = "err" <=> (cfg.inputPath = "" \/ cfg.outputPath = ""))
    /\ newRet = "err" =>
         /\ res = NewRes /\ initState = "none" /\ ~FileCreated
         /\ gPc = "none" /\ uiPc = "off"

C14_Witness ==
    /\ newRet = "err" /\ cfg.inputPath # "" /\ cfg.outputPath = ""
    /\ mainPc = "exited"

\* C15: the UI's callback never blocks Encode(): while Encode() runs, the
\* callback step can be taken whatever the channel holds and whatever the
\* consumer did, and the channel never holds more than ChanCap updates.
C15_CallbackNeverBlocks ==
    /\ Len(progressChan) <= ChanCap
    /\ (gPc = "encoding" /\ Alive /\ totalSamples > 0 /\ produced < MaxUpdates)
         => ENABLED ProgressCallback

C15_Witness ==
    /\ uiPc = "quit" /\ gPc = "encoding"
    /\ Len(progressChan) = ChanCap /\ produced = MaxUpdates

\* The updates the consumer has received or can still receive, in order.
Deliverable == taken \o progressChan

\* The update of invocation k was dropped.
Dropped(k) == \A i \in 1..Len(Deliverable) : Deliverable[i].sp # k

\* C16 as stated: the most recently produced update is always among those
\* the consumer has received or can still receive.
C16_LatestValueDelivery ==
    produced > 0 => \E i \in 1..Len(Deliverable) : Deliverable[i] = curUpdate

\* C16 as the code has it: updates are delivered oldest first, in the
\* order they were produced, and an update is dropped only when ChanCap
\* older updates were accepted before it; the latest one may be dropped.
C16_OldestFirstBestEffort ==
    /\ \A i \in 2..Len(Deliverable) : Deliverable[i-1].sp < Deliverable[i].sp
    /\ \A i \in 1..Len(Deliverable) : Deliverable[i].sp \in 1..produced
    /\ \A k \in 1..produced :
         Dropped(k) =>
           Cardinality({i \in 1..Len(Deliverable) : Deliverable[i].sp < k})
             >= ChanCap

C16_Witness ==
    /\ produced > 0 /\ Dropped(produced)
    /\ taken # << >> /\ Len(progressChan) < ChanCap

\* C17: a callback made while the channel is full discards its update and
\* leaves the queued updates as they were.
C17_FullChannelDiscardsNew ==
    [][(produced' = produced + 1 /\ Len(progressChan) = ChanCap)
         => progressChan' = progressChan]_vars

C17_Witness ==
    /\ produced = MaxUpdates /\ taken = << >>
    /\ progressChan = [i \in 1..ChanCap |-> [sp |-> i, total |-> totalSamples]]

C19_FailureReportedAndRemoved ==
    (mainPc = "exited" /\ (initState = "failed" \/ gRet = "err"))
      => reported /\ (FileCreated => removed)

\* C20: tags are written only once Encode() has returned nil.
C20_TagsOnlyAfterCompleted ==
    [][(tagged' /\ ~tagged) => gRet = "nil"]_vars

\* C21: the output container sees the header, then the packets in the
\* order the encoder produced them, then the trailer.  The header is
\* written by Initialize() before anything is read or encoded; when
\* writing it fails, Initialize() fails and nothing is ever encoded.
C21_HeaderPacketsTrailer ==
    /\ Len(written) <= Len(pktLog)
    /\ written = Prefix(pktLog, Len(written))
    /\ (reads > 0 \/ pc # "idle" \/ pktLog # << >> \/ trailers > 0)
         => res.header
    /\ trailers > 0 => (pc = "done" /\ written = pktLog)
    /\ initErr = "writeHeader" =>
         /\ initState = "failed" /\ ~res.header
         /\ pc = "idle" /\ reads = 0 /\ stampLog = << >> /\ pktLog = << >>

C21_Witness ==
    /\ trailers = 1 /\ res.header /\ Len(written) >= 3
    /\ \A i \in 2..Len(written) : written[i-1].pts < written[i].pts

\* C22: reading a packet of another stream is not an error and has no
\* effect beyond the read itself: nothing is submitted to the decoder, the
\* sample counter and the next output timestamp keep their values, no
\* callback is made, and the loop goes back to reading.
C22_OtherStreamDiscarded ==
    [][ otherPkts' # otherPkts =>
          /\ pc' = "read" /\ reads' = reads + 1
          /\ UNCHANGED <<encRet, libErr, res>>
          /\ UNCHANGED <<cntVars, decVars, filtVars, codVars, outVars, logVars>>
      ]_vars

C22_Witness ==
    /\ otherPkts >= 1 /\ reads > otherPkts
    /\ encRet = "nil" /\ Len(decodedLog) = reads - otherPkts
    /\ Len(cbLog) = 1

\* Channels of a channel layout name.
LayoutChannels(l) == IF l = "stereo" THEN 2 ELSE IF l = "mono" THEN 1 ELSE 0

\* C23: the encoder is configured with exactly one of two presets chosen
\* by the Stereo flag (112000 bps / 1 channel, or 192000 bps / 2 channels,
\* both at 44100 Hz), the filter graph's output layout has the encoder's
\* channel count, and once set the profile never changes.
C23_TwoPresets ==
    [][ /\ profile'.bitRate # 0 =>
             /\ profile'.sampleRate = 44100
             /\ ~cfg'.stereo => (profile'.bitRate = 112000 /\ profile'.channels = 1)
             /\ cfg'.stereo => (profile'.bitRate = 192000 /\ profile'.channels = 2)
        /\ profile'.layout # "none" =>
             LayoutChannels(profile'.layout) = profile'.channels
        /\ initState # "none" => (profile' = profile /\ cfg' = cfg)
      ]_vars

C23_Witness ==
    /\ cfg.stereo /\ initState = "ok" /\ profile.layout = "stereo"
    /\ profile.bitRate = 192000 /\ gRet = "nil"

\* The order of the release branches in Close().
CloseOrder == <<"filteredFrame", "encPkt", "decFrame", "filterGraph",
                "encCtx", "decCtx", "pb", "ofmtCtx", "ifmtCtx">>

Reverse(q) == [i \in 1..Len(q) |-> q[Len(q) + 1 - i]]

\* The Encoder's own handles in q (Encode's local read packet left out).
OwnHandles(q) == LET Own(r) == r # "packet" IN SelectSeq(q, Own)

\* The caller's Close() was the first Close() on this Encoder.
FirstClose ==
    /\ closes = 1 /\ ~res.crashed
    /\ ~(initState = "failed" /\ initErr \in Range(OutputSteps))

\* C24 as stated: Close() releases the resources in the exact reverse of
\* the order in which Initialize() acquired them.
C24_ReverseAcquisitionOrder ==
    (FirstClose /\ initState = "ok")
      => OwnHandles(res.relOrder) = Reverse(OwnHandles(res.acqOrder))

\* C24 as the code has it: Close() releases what was acquired in the fixed
\* order filtered frame, encoded packet, decoded frame, filter graph,
\* encoder context, decoder context, output I/O handle, output context,
\* input context, whatever the order of acquisition.
C24_FixedCloseOrder ==
    FirstClose =>
      LET Held(r) == res.acq[r] > 0
      IN OwnHandles(res.relOrder) = SelectSeq(CloseOrder, Held)

C24_Witness ==
    /\ FirstClose /\ initState = "ok" /\ encRet = "nil"
    /\ OwnHandles(res.relOrder) = CloseOrder
    /\ OwnHandles(res.acqOrder) # Reverse(CloseOrder)

\* The handles a successful Initialize() acquires, in program order.
InitOrder == <<"ifmtCtx", "decCtx", "ofmtCtx", "encCtx", "pb", "decFrame",
               "filteredFrame", "encPkt", "filterGraph">>

\* Position of handle r in the acquisition order so far (0: not acquired).
AcqPos(r) ==
    LET q == OwnHandles(res.acqOrder)
    IN IF r \in Range(q) THEN CHOOSE i \in 1..Len(q) : q[i] = r ELSE 0

\* C25 as stated: Initialize() opens source reader, sink writer, decoder,
\* encoder, reformatter in that order: the output sink before the decoder
\* and the encoder, the filter graph last.
C25_SinkBeforeDecoder ==
    initState = "ok" =>
        /\ AcqPos("ifmtCtx") = 1
        /\ AcqPos("ofmtCtx") < AcqPos("decCtx")
        /\ AcqPos("ofmtCtx") < AcqPos("encCtx")
        /\ AcqPos("pb") < AcqPos("decCtx")
        /\ AcqPos("pb") < AcqPos("encCtx")
        /\ AcqPos("filterGraph") = Len(OwnHandles(res.acqOrder))

\* C25 as the code has it: source reader, decoder, output context, encoder,
\* output file (with the header), the frame and packet buffers, and the
\* filter graph last; a failing Initialize() has acquired a prefix of this.
C25_InitOrder ==
    /\ LET q == OwnHandles(res.acqOrder)
       IN Len(q) <= Len(InitOrder) /\ q = Prefix(InitOrder, Len(q))
    /\ initState = "ok" => OwnHandles(res.acqOrder) = InitOrder
    /\ res.header => AcqPos("pb") > 0

C25_Witness ==
    /\ initState = "ok" /\ res.header
    /\ AcqPos("decCtx") = 2 /\ AcqPos("ofmtCtx") = 3 /\ AcqPos("pb") = 5
    /\ AcqPos("filterGraph") = 9

\* C26 as stated: the selected stream is the first audio stream of the
\* container.
C26_FirstAudioStream ==
    selRet = "ok" =>
        /\ container[streamIndex + 1].type = "audio"
        /\ \A j \in 1..streamIndex : container[j].type # "audio"

\* C26 as the code has it: the selected stream is the audio stream FFmpeg
\* ranks best, which is the first audio stream only among streams of equal
\* rank; a container without an audio stream is an error.
C26_BestAudioStream ==
    /\ selRet = "ok" =>
         /\ streamIndex + 1 \in AudioStreams(container)
         /\ \A j \in AudioStreams(container) :
              /\ container[j].rank <= container[streamIndex + 1].rank
              /\ j < streamIndex + 1 =>
                   container[j].rank < container[streamIndex + 1].rank
    /\ selRet = "err" => (AudioStreams(container) = {} /\ streamIndex = -1)
    /\ selRet # "pending" =>
         (selRet = "err" <=> AudioStreams(container) = {})

C26_Witness ==
    /\ selRet = "ok" /\ Cardinality(AudioStreams(container)) >= 2
    /\ \E j \in 1..streamIndex : container[j].type = "audio"

\* C27: a successful UpdateFrontmatter rewrites, in place, every line
\* between the delimiters whose key is podcast_duration or podcast_bytes,
\* inserts whichever of the two is missing right before the closing
\* delimiter (duration first), and leaves every other line as and where it
\* was; it succeeds only on a file with two delimiter lines.
C27_FrontmatterUpdated ==
    [][ fmRet' = "ok" =>
          LET old == mdFile
              new == mdFile'
              D == {i \in 1..Len(old) : old[i].key = "---"}
              open == CHOOSE i \in D : \A j \in D : i <= j
              close == CHOOSE i \in D \ {open} : \A j \in D \ {open} : i <= j
              IsDur(i) == open < i /\ i < close
                          /\ old[i].key = "podcast_duration"
              IsBytes(i) == open < i /\ i < close
                            /\ old[i].key = "podcast_bytes"
              missD == ~ \E i \in 1..Len(old) : IsDur(i)
              missB == ~ \E i \in 1..Len(old) : IsBytes(i)
              k == (IF missD THEN 1 ELSE 0) + (IF missB THEN 1 ELSE 0)
              dl == [lead |-> FALSE, key |-> "podcast_duration",
                     val |-> "00:42:00"]
              bl == [lead |-> FALSE, key |-> "podcast_bytes", val |-> "123"]
          IN /\ Cardinality(D) >= 2
             /\ Len(new) = Len(old) + k
             /\ \A i \in 1..(close - 1) :
                  new[i] = IF IsDur(i) THEN dl
                           ELSE IF IsBytes(i) THEN bl ELSE old[i]
             /\ \A i \in close..Len(old) : new[i + k] = old[i]
             /\ missD => new[close] = dl
             /\ missB => new[close + k - 1] = bl
      ]_vars

C27_Witness ==
    /\ fmRet = "ok" /\ Len(mdFile) = 5
    /\ mdFile[2].key = "podcast_duration" /\ mdFile[2].val = "00:42:00"
    /\ mdFile[3] = [lead |-> FALSE, key |-> "podcast_bytes", val |-> "123"]
    /\ mdFile[4].key = "---"
    /\ mdFile[5] = [lead |-> FALSE, key |-> "podcast_bytes", val |-> "1"]

\* What one input character becomes: nothing, or one output character.
Sanitised(c) ==
    IF c = " " THEN <<"-">>
    ELSE IF c = "B" THEN <<"b">>
    ELSE IF c \in {"a", "7", "-", "_", "."} THEN <<c>>
    ELSE << >>

RECURSIVE Concat(_)
Concat(q) == IF q = << >> THEN << >> ELSE Head(q) \o Concat(Tail(q))

C29_CoverArtSide ==
    artOut.done =>
        /\ imgIn.w # imgIn.h => (artOut.err /\ artOut.w = 0 /\ artOut.h = 0)
        /\ ~artOut.err =>
             /\ imgIn.w = imgIn.h
             /\ artOut.format = "png" /\ artOut.w = artOut.h
             /\ artOut.w \in 1400..3000
             /\ imgIn.w < 1400 => artOut.w = 1400
             /\ imgIn.w \in 1400..3000 => artOut.w = imgIn.w
             /\ imgIn.w > 3000 => artOut.w = 3000

C29_Witness ==
    /\ artOut.done /\ ~artOut.err
    /\ imgIn = [w |-> 700, h |-> 700] /\ artOut.w = 1400

\* A filtered frame can be retrieved from the buffer sink now.
FilterReady == FilterOut(filtBuf, filtFlushed) > 0

\* C30: every stage is drained before it is fed again.  When a packet (or
\* the flush packet) is about to be submitted to the decoder, the decoder
\* has no frame to hand out; when a frame (or the flush) is about to be
\* pushed to the filter graph, the graph has no frame to hand out; when a
\* frame (or the flush) is about to be sent to the encoder, the encoder has
\* no packet to hand out; and when the next packet is read or the next
\* decoded frame is received, the stages downstream are drained.
C30_DrainedBeforeFed ==
    /\ pc \in {"sendPkt", "flushDec"} => decReady = 0
    /\ pc \in {"pushFrame", "flushPushFrame", "flushFilt"} => ~FilterReady
    /\ pc \in {"encSend", "flushEnc"} => encReady = 0
    /\ pc = "read" => (decReady = 0 /\ ~FilterReady /\ encReady = 0)
    /\ pc \in {"recvFrame", "flushRecvFrame"} => (~FilterReady /\ encReady = 0)
    /\ pc \in {"getFiltered", "flushGetFiltered", "drainFilt"} => encReady = 0

C30_Witness ==
    /\ pc = "pushFrame" /\ Len(filteredLog) >= 1 /\ Len(pktLog) >= 1
    /\ filtBuf + Resample(decFrame, resampAcc, inRate).out >= 2 * ChunkSize

\* The main goroutine begins an operation on the Encoder or on its output
\* file: id3.WriteTags, encoder.GetFileStats with the deferred Close().
MainUsesEncoder ==
    \/ tagged' /\ ~tagged
    \/ mainPc = "stats" /\ mainPc' = "exited"

\* C31: no operation of the main goroutine on the Encoder or its output
\* file begins while Encode() is still running on the background
\* goroutine.
C31_NoConcurrentUse ==
    [][MainUsesEncoder => gPc # "encoding"]_vars

\* C32: the progress channel is closed once, in the step in which Encode()
\* returns on the goroutine, and stays closed; after the close no callback
\* runs and nothing is sent on the channel.
C32_ClosedOnceAfterEncode ==
    [][/\ chanClosed' # chanClosed
            => (~chanClosed /\ gPc = "encoding" /\ gPc' = "done")
       /\ chanClosed
            => (produced' = produced
                /\ Len(progressChan') <= Len(progressChan))
      ]_vars

C32_Witness ==
    /\ chanClosed /\ gPc = "done" /\ Alive
    /\ produced = MaxUpdates /\ Len(progressChan) = ChanCap

\* C33: once Encode() has returned, unless the user interrupts, the UI
\* handles EncodingCompleteMsg, is complete with the error Encode()
\* returned, and quits; and every waitForProgress receive ends, released
\* by a value or by the close, or ends with the process.
C33_CompletionDelivered ==
    /\ (gPc = "done")
         ~> (interrupted \/ (complete /\ mErr = gRet /\ uiPc = "quit"))
    /\ (gPc = "done") ~> [](waiters = 0 \/ ~Alive)

C33_Witness ==
    /\ gPc = "done" /\ gRet = "err" /\ ~interrupted
    /\ complete /\ mErr = "err" /\ uiPc = "quit"
    /\ chanClosed /\ waiters = 0 /\ progressChan = << >> /\ taken # << >>

\* The ProgressUpdate messages received and not yet handled by Update.
PendingProgress == {m \in msgs : m.kind = "progress"}

\* C34: at most one waitForProgress receive is outstanding, counting the
\* one whose update is on its way to Update; so Update handles the
\* updates in the order they were produced, each one newer than the one it
\* replaces, and samplesProcessed in the model never decreases.
C34_OneReceiveInOrder ==
    [][/\ waiters' + Cardinality(PendingProgress') <= 1
       /\ \A m \in PendingProgress' : m.sp > mSamples'
       /\ mSamples' >= mSamples
      ]_vars

C34_Witness ==
    /\ mSamples = ChanCap /\ produced = MaxUpdates /\ Dropped(MaxUpdates)
    /\ waiters = 1 /\ progressChan = << >> /\ uiPc = "running"

\* C35: the model is complete only when Encode() has returned, and holds
\* an error only when Encode() has returned that error; an unknown
\* duration (totalSamples = 0, no progress updates) changes neither.
C35_CompleteOnlyWhenFinished ==
    /\ complete => gPc = "done"
    /\ mErr # "nil" => (gPc = "done" /\ mErr = gRet /\ complete)
    /\ (totalSamples = 0 /\ gPc # "done") => (~complete /\ mTotal = 0)

C35_Witness ==
    /\ totalSamples = 0 /\ initState = "ok" /\ produced = 0 /\ mTotal = 0
    /\ complete /\ gPc = "done" /\ mErr = "err" /\ uiPc = "quit"

\* The lines of a file that are `---` once white space is trimmed.
DelimiterLines(lines) == {i \in 1..Len(lines) : lines[i].key = "---"}

\* C37: called on a file with fewer than two delimiter lines,
\* UpdateFrontmatter returns an error and leaves the file as it was.
C37_InvalidFrontmatterUntouched ==
    [][(fmLog' # fmLog /\ Cardinality(DelimiterLines(mdFile)) < 2)
         => (fmRet' = "err" /\ mdFile' = mdFile)]_vars

C37_Witness ==
    /\ fmLog = <<"err">> /\ Len(mdFile) = MaxLines
    /\ Cardinality(DelimiterLines(mdFile)) = 1
    /\ mdFile[1].key = "---" /\ mdFile[2].key = "podcast_duration"

\* C38: a second successful UpdateFrontmatter right after a successful
\* one, with the same duration and byte count, leaves the file exactly as
\* the first one left it.
C38_Idempotent ==
    [][(fmLog # << >> /\ fmLog[Len(fmLog)] = "ok"
        /\ fmLog' = Append(fmLog, "ok"))
         => mdFile' = mdFile]_vars

C38_Witness ==
    /\ fmLog = <<"ok", "ok">> /\ Len(mdFile) = MaxLines + 2
    /\ mdFile[MaxLines] = MdLine(FALSE, "podcast_duration", NewDuration)
    /\ mdFile[MaxLines + 1] = MdLine(FALSE, "podcast_bytes", FormatInt(NewBytes))
    /\ mdFile[MaxLines + 2].key = "---"

\* The string is not empty and ends in ".md", in any mix of cases.
EndsInMd(s) ==
    /\ Len(s) >= 3
    /\ s[Len(s) - 2] = "."
    /\ s[Len(s) - 1] \in {"m", "M"}
    /\ s[Len(s)] \in {"d", "D"}

====
